---- MODULE Spec2Model ----
(***************************************************************************)
(* Model of url_to_markdown.py: URL canonicalization, the bounded          *)
(* breadth-first WebCrawler, the sitemap reader and the process_website    *)
(* orchestration.                                                          *)
(*                                                                         *)
(* Strings are sequences of tokens.  A token is either a delimiter         *)
(* character (":", "/", "?", "#", ";") or a word of letters that contains  *)
(* no delimiter, so the concatenation of tokens is read back unambiguously.*)
(***************************************************************************)
EXTENDS Integers, Sequences, FiniteSets, TLC

\* ------------------------------------------------------------------------
\* Bounds of the model
\* ------------------------------------------------------------------------
MaxTail == 3
MaxCalls == 2
MaxDepthCap == 2
MaxPagesCap == 2
MaxLinks == 2
MaxEntries == 3
MaxLimit == 1
MaxCrawlDepthArg == 1
MaxCrawlPagesArg == 2

\* ------------------------------------------------------------------------
\* Python str helpers
\* ------------------------------------------------------------------------
NONE == <<"<none>">>

\* no list: what a variable holds before a list of URLs is returned
NoList == <<NONE>>

\* str.lower() on one token
Lower(c) ==
  CASE c = "HTTPS" -> "https" [] c = "API" -> "api" [] c = "JPG" -> "jpg"
    [] c = "Sitemap" -> "sitemap" [] c = "XML" -> "xml" [] OTHER -> c

LowerStr(s) == [i \in 1..Len(s) |-> Lower(s[i])]

\* s.find(c, from): least index >= from holding c, 0 when absent (1-based)
Find(s, c, from) ==
  IF \E i \in from..Len(s) : s[i] = c
  THEN CHOOSE i \in from..Len(s) : s[i] = c /\ \A j \in from..(i-1) : s[j] # c
  ELSE 0

\* s.rfind(c): greatest index holding c, 0 when absent
RFind(s, c) ==
  IF \E i \in 1..Len(s) : s[i] = c
  THEN CHOOSE i \in 1..Len(s) : s[i] = c /\ \A j \in (i+1)..Len(s) : s[j] # c
  ELSE 0

\* s[from:] (1-based, inclusive)
From(s, from) == SubSeq(s, from, Len(s))

\* s.rstrip(c)
RStrip(s, c) ==
  LET keep == {i \in 0..Len(s) : \A j \in (i+1)..Len(s) : s[j] = c}
      n == CHOOSE i \in keep : \A k \in keep : i <= k
  IN SubSeq(s, 1, n)

StartsWith(s, p) == Len(s) >= Len(p) /\ SubSeq(s, 1, Len(p)) = p

EndsWith(s, p) == Len(s) >= Len(p) /\ SubSeq(s, Len(s) - Len(p) + 1, Len(s)) = p

\* p in s
Contains(s, p) == \E i \in 1..(Len(s) - Len(p) + 1) : SubSeq(s, i, i + Len(p) - 1) = p

\* ------------------------------------------------------------------------
\* urllib.parse.urlparse
\* ------------------------------------------------------------------------
Words == {"https", "HTTPS", "http", "ftp", "h", "o", "a", "b", "api", "admin", "jpg"}

UsesRelative == {<<>>, <<"ftp">>, <<"http">>, <<"https">>}

UsesNetloc == {<<>>, <<"ftp">>, <<"http">>, <<"https">>}

\* scheme_chars: letters, digits, "+", "-" and "."
SchemeChars == Words \cup {"."}

\* the scheme and the rest after "scheme:"
SplitScheme(url) ==
  LET i == Find(url, ":", 1)
  IN IF i > 1 /\ url[1] \in Words /\ \A j \in 1..(i-1) : url[j] \in SchemeChars
     THEN [scheme |-> LowerStr(SubSeq(url, 1, i-1)), rest |-> From(url, i+1)]
     ELSE [scheme |-> <<>>, rest |-> url]

\* _splitnetloc(url, 2): the authority ends at the first of "/", "?", "#"
SplitNetloc(url) ==
  IF StartsWith(url, <<"/", "/">>)
  THEN LET ends == {i \in 3..Len(url) : url[i] \in {"/", "?", "#"}}
           delim == IF ends = {} THEN Len(url) + 1
                    ELSE CHOOSE i \in ends : \A k \in ends : i <= k
       IN [netloc |-> SubSeq(url, 3, delim - 1), rest |-> From(url, delim)]
  ELSE [netloc |-> <<>>, rest |-> url]

\* url.split(c, 1)
SplitAt(url, c) ==
  LET i == Find(url, c, 1)
  IN IF i = 0 THEN [head |-> url, tail |-> <<>>]
     ELSE [head |-> SubSeq(url, 1, i-1), tail |-> From(url, i+1)]

\* _splitparams: the parameters of the last path segment
SplitParams(path) ==
  LET slash == RFind(path, "/")
      i == Find(path, ";", IF slash = 0 THEN 1 ELSE slash)
  IN IF i = 0 THEN [head |-> path, tail |-> <<>>]
     ELSE [head |-> SubSeq(path, 1, i-1), tail |-> From(path, i+1)]

\* schemes of urllib.parse.uses_params that the model's words can spell
UsesParams == {<<>>, <<"ftp">>, <<"http">>, <<"https">>}

\* urlparse(url, scheme=default)
urlparse_default(url, default) ==
  LET s == SplitScheme(url)
      scheme == IF s.scheme = <<>> THEN default ELSE s.scheme
      n == SplitNetloc(s.rest)
      f == SplitAt(n.rest, "#")
      q == SplitAt(f.head, "?")
      p == IF scheme \in UsesParams THEN SplitParams(q.head)
           ELSE [head |-> q.head, tail |-> <<>>]
  IN [scheme |-> scheme, netloc |-> n.netloc, path |-> p.head,
      params |-> p.tail, query |-> q.tail, fragment |-> f.tail]

urlparse(url) == urlparse_default(url, <<>>)

\* urllib.parse.urlunparse
urlunparse(p) ==
  LET u1 == IF p.params = <<>> THEN p.path ELSE p.path \o <<";">> \o p.params
      u2 == IF p.netloc # <<>>
               \/ (p.scheme # <<>> /\ p.scheme \in UsesNetloc /\ ~StartsWith(u1, <<"/", "/">>))
            THEN <<"/", "/">> \o p.netloc
                 \o (IF u1 # <<>> /\ u1[1] # "/" THEN <<"/">> ELSE <<>>) \o u1
            ELSE u1
      u3 == IF p.scheme # <<>> THEN p.scheme \o <<":">> \o u2 ELSE u2
      u4 == IF p.query # <<>> THEN u3 \o <<"?">> \o p.query ELSE u3
  IN IF p.fragment # <<>> THEN u4 \o <<"#">> \o p.fragment ELSE u4

\* str.split(c): the segments between the occurrences of c
RECURSIVE SplitSeq(_, _)
SplitSeq(s, c) ==
  LET i == Find(s, c, 1)
  IN IF i = 0 THEN <<s>>
     ELSE <<SubSeq(s, 1, i-1)>> \o SplitSeq(From(s, i+1), c)

\* c.join(segs)
RECURSIVE JoinSeq(_, _)
JoinSeq(segs, c) ==
  IF segs = <<>> THEN <<>>
  ELSE IF Len(segs) = 1 THEN segs[1]
  ELSE segs[1] \o <<c>> \o JoinSeq(Tail(segs), c)

\* the loop of urljoin over the segments: ".." pops, "." is skipped
RECURSIVE ResolveSegments(_, _)
ResolveSegments(segments, resolved) ==
  IF segments = <<>> THEN resolved
  ELSE LET seg == Head(segments)
       IN ResolveSegments(Tail(segments),
            IF seg = <<".", ".">>
            THEN (IF resolved = <<>> THEN resolved
                  ELSE SubSeq(resolved, 1, Len(resolved) - 1))
            ELSE IF seg = <<".">> THEN resolved
            ELSE Append(resolved, seg))

\* urljoin: base_parts, the segments of the base path without its last
\* non-directory item
BaseParts(bp) == IF bp[Len(bp)] # <<>> THEN SubSeq(bp, 1, Len(bp) - 1) ELSE bp

\* urljoin: segments[1:-1] = filter(None, segments[1:-1])
FilterMiddle(segments) ==
  LET keep == {i \in 1..Len(segments) :
                 i = 1 \/ i = Len(segments) \/ segments[i] # <<>>}
      nth(k) == CHOOSE i \in keep : Cardinality({j \in keep : j < i}) = k - 1
  IN [k \in 1..Cardinality(keep) |-> segments[nth(k)]]

\* urljoin: the segments that are resolved
JoinSegments(bpath, path) ==
  IF path # <<>> /\ path[1] = "/" THEN SplitSeq(path, "/")
  ELSE FilterMiddle(BaseParts(SplitSeq(bpath, "/")) \o SplitSeq(path, "/"))

\* urljoin: the resolved path of the given segments
ResolvedPath(segments) ==
  JoinSeq(IF segments[Len(segments)] \in {<<".">>, <<".", ".">>}
          THEN Append(ResolveSegments(segments, <<>>), <<>>)
          ELSE ResolveSegments(segments, <<>>), "/")

OrRoot(path) == IF path = <<>> THEN <<"/">> ELSE path

\* urljoin on the parsed base b and the parsed url u
urljoin_parsed(url, b, u) ==
  IF u.scheme # b.scheme \/ u.scheme \notin UsesRelative THEN url
  ELSE IF u.scheme \in UsesNetloc /\ u.netloc # <<>> THEN urlunparse(u)
  ELSE IF u.path = <<>> /\ u.params = <<>>
  THEN urlunparse([u EXCEPT !.netloc = b.netloc, !.path = b.path,
                            !.params = b.params,
                            !.query = IF u.query = <<>> THEN b.query ELSE u.query])
  ELSE urlunparse([u EXCEPT !.netloc = b.netloc,
                            !.path = OrRoot(ResolvedPath(JoinSegments(b.path, u.path)))])

\* urllib.parse.urljoin
urljoin(base, url) ==
  IF base = <<>> THEN url
  ELSE IF url = <<>> THEN base
  ELSE urljoin_parsed(url, urlparse(base), urlparse_default(url, urlparse(base).scheme))

\* ------------------------------------------------------------------------
\* WebCrawler._normalize_url
\* ------------------------------------------------------------------------
HttpSchemes == {<<"http">>, <<"https">>}

\* f"{scheme}://{netloc}{path}"
FormatUrl(scheme, netloc, path) == scheme \o <<":", "/", "/">> \o netloc \o path

NormPath(path) ==
  IF path = <<>> \/ path = <<"/">> THEN <<"/">> ELSE RStrip(path, "/")

\* a plausible slip: the query is kept in the result
normalize_url_keepquery(url) ==
  LET parsed == urlparse(url)
  IN IF parsed.scheme \notin HttpSchemes THEN url
     ELSE FormatUrl(parsed.scheme, parsed.netloc, NormPath(parsed.path))
          \o (IF parsed.query = <<>> THEN <<>> ELSE <<"?">> \o parsed.query)

normalize_url(url) ==
  LET parsed == urlparse(url)
  IN IF parsed.scheme \notin HttpSchemes THEN url
     ELSE FormatUrl(parsed.scheme, parsed.netloc, NormPath(parsed.path))

\* ------------------------------------------------------------------------
\* WebCrawler._get_robots_disallow, _is_allowed, _is_valid_url, _extract_links
\* ------------------------------------------------------------------------

\* str.strip(): leading and trailing blanks removed
Strip(s) ==
  LET idx == {i \in 1..Len(s) : s[i] # " "}
  IN IF idx = {} THEN <<>>
     ELSE SubSeq(s, CHOOSE i \in idx : \A k \in idx : i <= k,
                    CHOOSE i \in idx : \A k \in idx : i >= k)

\* str.lower() of a robots.txt line
LowerLine(s) == [i \in 1..Len(s) |-> IF s[i] = "Disallow" THEN "disallow" ELSE Lower(s[i])]

\* the loop over the lines of robots.txt
RECURSIVE DisallowOfLines(_)
DisallowOfLines(lines) ==
  IF lines = <<>> THEN <<>>
  ELSE LET line == Head(lines)
           path == Strip(SplitAt(line, ":").tail)
       IN (IF StartsWith(LowerLine(Strip(line)), <<"disallow", ":">>) /\ path # <<>>
           THEN <<path>> ELSE <<>>) \o DisallowOfLines(Tail(lines))

get_robots_disallow_anystatus(response) ==
  IF response.kind = "error" THEN <<>>
  ELSE DisallowOfLines(SplitSeq(response.text, "\n"))

\* response: the outcome of session.get(robots_url)
get_robots_disallow(response) ==
  IF response.kind = "error" THEN <<>>
  ELSE IF response.status = 200 THEN DisallowOfLines(SplitSeq(response.text, "\n"))
  ELSE <<>>

is_allowed(disallowed_paths, url) ==
  LET path == urlparse(url).path
  IN \A i \in 1..Len(disallowed_paths) : ~StartsWith(path, disallowed_paths[i])

skip_extensions ==
  {<<".", e>> : e \in {"jpg", "jpeg", "png", "gif", "svg", "ico",
                       "pdf", "doc", "docx", "xls", "xlsx", "ppt", "pptx",
                       "zip", "rar", "tar", "gz", "7z",
                       "mp3", "mp4", "avi", "mov", "wmv",
                       "css", "js", "json", "xml", "rss", "atom"}}

skip_paths ==
  {<<"/", "wp-admin">>, <<"/", "admin">>, <<"/", "login">>, <<"/", "logout">>,
   <<"/", "api", "/">>, <<"/", "feed", "/">>, <<"/", ".", "well-known">>}

is_valid_url(domain, disallowed_paths, url) ==
  LET parsed == urlparse(url)
      path_lower == LowerStr(parsed.path)
  IN /\ parsed.netloc = domain
     /\ parsed.scheme \in HttpSchemes
     /\ \A ext \in skip_extensions : ~EndsWith(path_lower, ext)
     /\ \A skip \in skip_paths : ~Contains(path_lower, skip)
     /\ is_allowed(disallowed_paths, url)

\* the link produced for one href of the page at url
LinkOfHref(url, href) ==
  LET parsed == urlparse(urljoin(url, href))
  IN normalize_url(FormatUrl(parsed.scheme, parsed.netloc, parsed.path))

\* hrefs: the href attributes of the a and link tags of the page
extract_links(domain, disallowed_paths, url, hrefs) ==
  {l \in {LinkOfHref(url, href) : href \in hrefs \ {<<>>}} :
     is_valid_url(domain, disallowed_paths, l)}

\* ------------------------------------------------------------------------
\* WebsiteContentExtractor.parse_sitemap
\*
\* A file is [kind |-> "empty"], [kind |-> "malformed"] or
\* [kind |-> "xml", root |-> element]; an element is a record
\* [tag, text, children], text being NONE for an element without text.
\* ------------------------------------------------------------------------

\* elem.tag.split('}')[-1] if '}' in elem.tag else elem.tag
LocalName(tag) ==
  IF RFind(tag, "}") = 0 THEN tag ELSE From(tag, RFind(tag, "}") + 1)

\* bool(child.text)
Truthy(text) == text # NONE /\ text # <<>>

\* lines 455-459: the path of the stored URL
sitemap_norm_path(path) ==
  IF path = <<>> \/ path = <<"/">> THEN <<"/">> ELSE RStrip(path, "/")

\* lines 452-460: the string stored for the text of a loc element
sitemap_normalize(text) ==
  FormatUrl(urlparse(Strip(text)).scheme, urlparse(Strip(text)).netloc,
            sitemap_norm_path(urlparse(Strip(text)).path))

\* the loop over the children of a url element: the first loc child with
\* text decides, NONE when there is none
RECURSIVE FirstLoc(_)
FirstLoc(children) ==
  IF children = <<>> THEN NONE
  ELSE IF LocalName(Head(children).tag) = <<"loc">> /\ Truthy(Head(children).text)
  THEN Head(children).text
  ELSE FirstLoc(Tail(children))

\* lines 461-463
AddUrl(urls, normalized) ==
  IF \E i \in 1..Len(urls) : urls[i] = normalized THEN urls
  ELSE Append(urls, normalized)

\* root.iter() over a sequence of sibling elements, in document order, with
\* the body of the loop applied to each element
RECURSIVE WalkElements(_, _)
WalkElements(elems, urls) ==
  IF elems = <<>> THEN urls
  ELSE WalkElements(
         Head(elems).children \o Tail(elems),
         IF LocalName(Head(elems).tag) = <<"url">>
            /\ FirstLoc(Head(elems).children) # NONE
         THEN AddUrl(urls, sitemap_normalize(FirstLoc(Head(elems).children)))
         ELSE urls)

\* the outcome of parse_sitemap on the file: ET.parse raises on an empty or
\* malformed file and the handler re-raises (lines 469-471)
parse_sitemap(file) ==
  IF file.kind # "xml"
  THEN [raised |-> TRUE, urls |-> <<>>]
  ELSE [raised |-> FALSE, urls |-> WalkElements(<<file.root>>, <<>>)]

\* ------------------------------------------------------------------------
\* WebCrawler.generate_sitemap and WebsiteContentExtractor.process_website
\* ------------------------------------------------------------------------
Leaf(tag, text) == [tag |-> tag, text |-> text, children |-> <<>>]

Node(tag, children) == [tag |-> tag, text |-> NONE, children |-> children]

\* the tag of an element under xmlns="..."
Ns(name) == <<"{", "ns", "}", name>>

\* characters that end the text of an element when written unescaped
XmlSpecial == {"&", "<"}

\* lines 215-221: the url element written for one URL
GeneratedEntry(url) ==
  Node(Ns("url"), <<Leaf(Ns("loc"), url), Leaf(Ns("lastmod"), <<"d">>),
                    Leaf(Ns("changefreq"), <<"weekly">>),
                    Leaf(Ns("priority"), <<"0", ".", "5">>)>>)

\* the file generate_sitemap writes: the URLs are written as they are
generate_sitemap(urls) ==
  IF \E i \in 1..Len(urls) : \E k \in 1..Len(urls[i]) : urls[i][k] \in XmlSpecial
  THEN [kind |-> "malformed"]
  ELSE [kind |-> "xml",
        root |-> Node(Ns("urlset"), [i \in 1..Len(urls) |-> GeneratedEntry(urls[i])])]

\* a plausible slip: every input other than 2 starts the crawl
ChoiceBranch_elsecrawl(choice) ==
  IF choice = "2" THEN "manual" ELSE "crawl"

\* lines 590-614: the branch the stripped input selects
ChoiceBranch(choice) ==
  IF choice = "1" THEN "crawl"
  ELSE IF choice = "2" THEN "manual"
  ELSE "cancel"

\* a plausible slip: the result of the crawl is not tested
HasPages_always(urls) == TRUE

\* line 598: if discovered_urls
HasPages(urls) == urls # <<>>

\* urls[:n]
Take(urls, n) ==
  IF n >= 0 THEN SubSeq(urls, 1, IF n < Len(urls) THEN n ELSE Len(urls))
  ELSE SubSeq(urls, 1, IF Len(urls) + n > 0 THEN Len(urls) + n ELSE 0)

\* lines 639-640: limit is None or an integer, and 0 is falsy
LimitUrls(limit, urls) ==
  IF limit.given /\ limit.n # 0 THEN Take(urls, limit.n) ELSE urls

\* lines 617-631: what is written before the sitemap is parsed
WrittenBeforeParse(separate) ==
  (IF separate THEN {"dir"} ELSE {}) \cup {"sitemap"}

\* lines 654-661: what is written after the extraction
WrittenAfterExtract(separate) ==
  IF separate THEN {"pages", "readme"} ELSE {"markdown"}

\* ------------------------------------------------------------------------
\* Input URLs: an optional scheme, an optional authority and a tail of at
\* most MaxTail tokens
\* ------------------------------------------------------------------------
TailChars == {"/", "a", ";", "?", "#"}

SeqsUpTo(S, n) == UNION {[1..k -> S] : k \in 0..n}

SchemePrefixes == {<<>>, <<"https", ":">>, <<"HTTPS", ":">>, <<"ftp", ":">>}

AuthPrefixes == {<<>>, <<"/", "/", "h">>, <<"/", "/", "o">>}

UrlInputs ==
  {s \o a \o t : s \in SchemePrefixes, a \in AuthPrefixes, t \in SeqsUpTo(TailChars, MaxTail)}

\* the URL string written from the components of an http(s) URL
BuildUrl(p) ==
  p.scheme \o <<":", "/", "/">> \o p.netloc \o p.path
  \o (IF p.params = <<>> THEN <<>> ELSE <<";">> \o p.params)
  \o (IF p.query = <<>> THEN <<>> ELSE <<"?">> \o p.query)
  \o (IF p.fragment = <<>> THEN <<>> ELSE <<"#">> \o p.fragment)

\* the URLs compared with url: itself, the one with a trailing slash added to
\* the path, and the ones with another query and fragment
Variants(url) ==
  LET p == urlparse(url)
  IN {url} \cup
     (IF p.scheme \in HttpSchemes
      THEN {BuildUrl([p EXCEPT !.path = p.path \o <<"/">>])}
           \cup {BuildUrl([p EXCEPT !.query = q, !.fragment = f]) :
                   q \in {<<>>, <<"a">>}, f \in {<<>>, <<"b">>}}
      ELSE {})

\* ------------------------------------------------------------------------
\* State
\* ------------------------------------------------------------------------
VARIABLES
  url1,      \* the URL handed to _normalize_url
  url2,      \* a second URL, compared with url1
  n1,        \* the result for url1, normalized again by each further call
  n2,        \* the result for url2
  ncalls,    \* number of calls that normalized n1 again
  site_url,  \* the URL the crawler is constructed with
  max_depth, \* WebCrawler.max_depth
  max_pages, \* WebCrawler.max_pages
  cpc,       \* position of the crawler: "new", "ready", "loop", "returned"
  base_url,  \* WebCrawler.base_url
  domain,    \* WebCrawler.domain
  disallowed_paths,  \* WebCrawler.disallowed_paths
  visited_urls,      \* WebCrawler.visited_urls
  discovered_urls,   \* WebCrawler.discovered_urls
  queue,     \* the local queue of crawl(): records [url, depth]
  enq_log,   \* every URL appended to queue so far, in order
  fetch_log, \* every fetch of crawl() so far: records [url, depth, accepted]
  crawl_result,      \* the list crawl() returned, NoList before
  sm_file,   \* the content of the file at sitemap_path, NoFile when absent
  parse_result,      \* the list parse_sitemap returned, NONE before
  parse_raised,      \* parse_sitemap ended by raising
  augment_kw,        \* process_website is called with augment_crawl=True
  net_find,          \* what find_sitemap_url returns for the site, NONE for None
  net_doc,           \* what the site serves at that URL, NoFile for None
  ppc,               \* position in process_website
  choice,            \* the stripped answer to the prompt, "none" before it
  sitemap_url,       \* local sitemap_url
  sitemap_source,    \* local sitemap_source
  gen_urls,          \* the argument of generate_sitemap, NONE when not called
  saved_sitemap,     \* the content of the sitemap copied to the output
  written,           \* what has been written to the output location
  extracted,         \* the URLs handed to extract_content, in order
  proc_error,        \* the exception process_website raised
  proc_result,       \* the pair process_website returned, NONE before
  link_domain,   \* self.domain of the crawler whose method is called
  link_rules,   \* self.disallowed_paths of that crawler
  page_url,   \* the url argument of _extract_links, NONE when not called
  page_hrefs,   \* the href attributes of the a and link tags of the page
  link_list,   \* the list _extract_links returned, NONE before
  valid_url,   \* the argument of _is_valid_url, NONE when not called
  valid_result,  \* what _is_valid_url returned, "none" before
  finder_base,   \* SitemapFinder.base_url
  fpc,   \* position in find_sitemap_url
  path_idx,   \* index of the next entry of common_paths
  probe_log,   \* the URLs requested so far, each with whether its step succeeded
  net_errors,   \* the number of requests that raised a network error
  find_result,   \* what find_sitemap_url returned, NONE for None
  find_error,   \* the exception that left find_sitemap_url
  dl_top,   \* the response to the request of download_sitemap
  dl_children,   \* the responses to the requests for the sitemaps of an index
  dl_file,   \* the file download_sitemap returned, NoFile before
  dl_error,  \* the exception that left download_sitemap
  robots_response,  \* the outcome of the request for robots.txt in WebCrawler.__init__
  last_response,   \* status and content type of the last response to a page request of crawl, or its exception
  first_result,   \* the list the first call of crawl returned, once crawl is called again
  missed_links   \* the links of recorded pages above the depth limit that crawl left off the frontier

uvars == <<url1, url2, n1, n2, ncalls>>

cvars == <<site_url, max_depth, max_pages, cpc, base_url, domain, disallowed_paths,
           visited_urls, discovered_urls, queue, enq_log, fetch_log, crawl_result>>

\* no file at the path
NoFile == [kind |-> "absent"]

svars == <<sm_file, parse_result, parse_raised>>

vars == <<url1, url2, n1, n2, ncalls,
          site_url, max_depth, max_pages, cpc, base_url, domain, disallowed_paths,
          visited_urls, discovered_urls, queue, enq_log, fetch_log, crawl_result,
          sm_file, parse_result, parse_raised,
          augment_kw, net_find, net_doc, ppc, choice,
          sitemap_url, sitemap_source, gen_urls, saved_sitemap, written,
          extracted, proc_error, proc_result,
          link_domain, link_rules, page_url, page_hrefs, link_list, valid_url, valid_result,
          finder_base, fpc, path_idx, probe_log, net_errors, find_result, find_error, dl_top, dl_children, dl_file, dl_error,
          robots_response,
          last_response, first_result, missed_links>>

\* no request made yet
NoResponse == [kind |-> "none"]

hvars == <<last_response, first_result, missed_links>>

HistoryIdle ==
  /\ last_response = NoResponse
  /\ first_result = NoList
  /\ missed_links = {}


rvars == <<robots_response>>

RobotsIdle ==
  /\ robots_response = NoResponse


fvars == <<finder_base, fpc, path_idx, probe_log, net_errors, find_result, find_error, dl_top, dl_children, dl_file, dl_error>>

FinderIdle ==
  /\ finder_base = <<>>
  /\ fpc = "idle"
  /\ path_idx = 0
  /\ probe_log = <<>>
  /\ net_errors = 0
  /\ find_result = NONE
  /\ find_error = "none"
  /\ dl_top = NoResponse
  /\ dl_children = <<>>
  /\ dl_file = NoFile
  /\ dl_error = "none"

lvars == <<link_domain, link_rules, page_url, page_hrefs, link_list, valid_url, valid_result>>

LinksIdle ==
  /\ link_domain = <<>>
  /\ link_rules = <<>>
  /\ page_url = NONE
  /\ page_hrefs = {}
  /\ link_list = NONE
  /\ valid_url = NONE
  /\ valid_result = "none"

pvars == <<augment_kw, net_find, net_doc, ppc, choice,
           sitemap_url, sitemap_source, gen_urls, saved_sitemap, written,
           extracted, proc_error, proc_result>>

NoError == [type |-> "none", msg |-> ""]

ProcIdle ==
  /\ augment_kw = FALSE /\ net_find = NONE /\ net_doc = NoFile
  /\ ppc = "idle" /\ choice = "none" /\ sitemap_url = NONE
  /\ sitemap_source = "none" /\ gen_urls = NONE /\ saved_sitemap = NoFile
  /\ written = {} /\ extracted = <<>> /\ proc_error = NoError
  /\ proc_result = NONE

SitemapIdle == sm_file = NoFile /\ parse_result = NONE /\ parse_raised = FALSE

UrlIdle == url1 = <<>> /\ url2 = <<>> /\ n1 = NONE /\ n2 = NONE /\ ncalls = 0

CrawlIdle ==
  /\ site_url = <<>> /\ max_depth = 0 /\ max_pages = 0 /\ cpc = "idle"
  /\ base_url = <<>> /\ domain = <<>> /\ disallowed_paths = <<>>
  /\ visited_urls = {} /\ discovered_urls = <<>> /\ queue = <<>>
  /\ enq_log = <<>> /\ fetch_log = <<>> /\ crawl_result = NoList

\* ------------------------------------------------------------------------
\* Calls of _normalize_url
\* ------------------------------------------------------------------------
InitUrl ==
  /\ url1 \in UrlInputs
  /\ url2 \in Variants(url1)
  /\ n1 = NONE
  /\ n2 = NONE
  /\ ncalls = 0
  /\ CrawlIdle
  /\ SitemapIdle
  /\ ProcIdle
  /\ LinksIdle
  /\ FinderIdle
  /\ RobotsIdle
  /\ HistoryIdle

NormalizeFirst ==
  /\ n1 = NONE
  /\ n1' = normalize_url(url1)
  /\ UNCHANGED <<url1, url2, n2, ncalls>>
  /\ UNCHANGED cvars
  /\ UNCHANGED svars
  /\ UNCHANGED pvars
  /\ UNCHANGED lvars
  /\ UNCHANGED fvars
  /\ UNCHANGED rvars
  /\ UNCHANGED hvars

NormalizeSecond ==
  /\ n2 = NONE
  /\ n2' = normalize_url(url2)
  /\ UNCHANGED <<url1, url2, n1, ncalls>>
  /\ UNCHANGED cvars
  /\ UNCHANGED svars
  /\ UNCHANGED pvars
  /\ UNCHANGED lvars
  /\ UNCHANGED fvars
  /\ UNCHANGED rvars
  /\ UNCHANGED hvars

NormalizeAgain ==
  /\ n1 # NONE
  /\ ncalls < MaxCalls
  /\ n1' = normalize_url(n1)
  /\ ncalls' = ncalls + 1
  /\ UNCHANGED <<url1, url2, n2>>
  /\ UNCHANGED cvars
  /\ UNCHANGED svars
  /\ UNCHANGED pvars
  /\ UNCHANGED lvars
  /\ UNCHANGED fvars
  /\ UNCHANGED rvars
  /\ UNCHANGED hvars

NextUrl == NormalizeFirst \/ NormalizeSecond \/ NormalizeAgain

SpecUrl == InitUrl /\ [][NextUrl]_vars


\* ------------------------------------------------------------------------
\* The site seen by the crawler
\* ------------------------------------------------------------------------
BaseH == <<"https", ":", "/", "/", "h">>

\* the site URLs a crawler is made for: the root, and a page below it that
\* the robots.txt of the model disallows
SiteUrls == {BaseH, BaseH \o <<"/", "b", "/">>}

\* outcomes of session.get(robots_url): an exception, a 404 and a 200 whose
\* text has a rule in lower case after a blank, a line that is no rule, a
\* rule without value and a rule with blanks around its value
RobotsResponses ==
  {[kind |-> "error"],
   [kind |-> "resp", status |-> 404, text |-> <<"Disallow", ":", "/", "b">>],
   [kind |-> "resp", status |-> 200,
    text |-> <<"User-agent", ":", " ", "*", "\n", " ", "disallow", ":", "/", "b", "/", "\n",
               "Allow", ":", "/", "\n", "Disallow", ":", " ", "\n",
               "Disallow", ":", " ", "/", "b", " ">>]}

\* href attributes found on the pages of the site
HrefPool ==
  {<<"/", "a">>, <<"/", "a", "/">>, <<"/", "b", "#", "a">>,
   BaseH, BaseH \o <<"/", "/">>, <<"https", ":", "/", "/", "o", "/", "a">>}

HrefSets == {H \in SUBSET HrefPool : Cardinality(H) <= MaxLinks}

\* outcomes of session.get(current_url): an exception, or a response with a
\* status, a content-type that contains text/html or not, and the hrefs of the
\* body; bad_href: an href on which urljoin raises ValueError
PageResponses ==
  {[kind |-> "error"]}
  \cup {[kind |-> "resp", status |-> 200, html |-> FALSE, hrefs |-> {}, bad_href |-> FALSE]}
  \cup {[kind |-> "resp", status |-> 404, html |-> TRUE, hrefs |-> {}, bad_href |-> FALSE]}
  \cup {[kind |-> "resp", status |-> 200, html |-> TRUE, hrefs |-> H, bad_href |-> FALSE] :
          H \in HrefSets}
  \cup {[kind |-> "resp", status |-> 200, html |-> TRUE, hrefs |-> {<<"/", "a">>},
         bad_href |-> TRUE]}

\* what the loop reads of a response: its status and whether its content type
\* contains text/html, or nothing when the request raised
ResponseHead(response) ==
  IF response.kind = "error" THEN [kind |-> "error"]
  ELSE [kind |-> "resp", status |-> response.status, html |-> response.html]

\* a plausible slip: the status is not looked at
Accepted_anystatus(response) ==
  response.kind = "resp" /\ response.html

Accepted(response) ==
  response.kind = "resp" /\ response.status = 200 /\ response.html

\* the orders in which list(set(links)) may enumerate a set
RECURSIVE Orders(_)
Orders(S) ==
  IF S = {} THEN {<<>>}
  ELSE UNION {{<<x>> \o o : o \in Orders(S \ {x})} : x \in S}

\* ------------------------------------------------------------------------
\* WebCrawler
\* ------------------------------------------------------------------------
InitCrawl ==
  /\ UrlIdle
  /\ SitemapIdle
  /\ ProcIdle
  /\ site_url \in SiteUrls
  /\ max_depth \in -1..MaxDepthCap
  /\ max_pages \in -1..MaxPagesCap
  /\ cpc = "new"
  /\ base_url = <<>> /\ domain = <<>> /\ disallowed_paths = <<>>
  /\ visited_urls = {} /\ discovered_urls = <<>> /\ queue = <<>>
  /\ enq_log = <<>> /\ fetch_log = <<>> /\ crawl_result = NoList
  /\ LinksIdle
  /\ FinderIdle
  /\ RobotsIdle
  /\ HistoryIdle

\* WebCrawler.__init__
WebCrawler_init ==
  /\ cpc = "new"
  /\ \E response \in RobotsResponses :
       /\ robots_response' = response
       /\ disallowed_paths' = get_robots_disallow(response)
  /\ base_url' = RStrip(site_url, "/")
  /\ domain' = urlparse(site_url).netloc
  /\ visited_urls' = {}
  /\ discovered_urls' = <<>>
  /\ cpc' = "ready"
  /\ UNCHANGED <<site_url, max_depth, max_pages, queue, enq_log, fetch_log, crawl_result>>
  /\ UNCHANGED uvars
  /\ UNCHANGED svars
  /\ UNCHANGED pvars
  /\ UNCHANGED lvars
  /\ UNCHANGED fvars
  /\ UNCHANGED hvars

\* a plausible slip: URLs are enqueued without being marked
MarkVisited_skip(visited, urls) == visited

\* self.visited_urls.add(url) for every URL that is enqueued
MarkVisited(visited, urls) == visited \cup urls

\* start_url = self._normalize_url(self.base_url), tabulated over the base
\* URLs __init__ can store: TLC evaluates the table once, where an
\* application of normalize_url inside ENABLED is evaluated without sharing
\* of subterms
StartUrlOf == [u \in {RStrip(s, "/") : s \in SiteUrls} |-> normalize_url(u)]

\* crawl(): the statements before the loop
CrawlStart ==
  /\ cpc = "ready"
  /\ LET start_url == StartUrlOf[base_url]
     IN /\ queue' = <<[url |-> start_url, depth |-> 0]>>
        /\ visited_urls' = MarkVisited(visited_urls, {start_url})
        /\ enq_log' = Append(enq_log, start_url)
  /\ cpc' = "loop"
  /\ UNCHANGED <<site_url, max_depth, max_pages, base_url, domain, disallowed_paths,
                 discovered_urls, fetch_log, crawl_result>>
  /\ UNCHANGED uvars
  /\ UNCHANGED svars
  /\ UNCHANGED pvars
  /\ UNCHANGED lvars
  /\ UNCHANGED fvars
  /\ UNCHANGED rvars
  /\ UNCHANGED hvars

\* a plausible slip: the page budget is compared with <=
LoopRuns_le == queue # <<>> /\ Len(discovered_urls) <= max_pages

\* the condition of the while loop
LoopRuns == queue # <<>> /\ Len(discovered_urls) < max_pages

\* a plausible slip: the entry is tested at the head of the queue and left
\* there
AfterSkip_keep(q) == q

\* lines 178-181: the entry was popped before `continue`
AfterSkip(q) == Tail(q)

\* one iteration: the entry is deeper than max_depth
CrawlSkipDeep ==
  /\ cpc = "loop" /\ LoopRuns
  /\ Head(queue).depth > max_depth
  /\ queue' = AfterSkip(queue)
  /\ UNCHANGED <<site_url, max_depth, max_pages, cpc, base_url, domain, disallowed_paths,
                 visited_urls, discovered_urls, enq_log, fetch_log, crawl_result>>
  /\ UNCHANGED uvars
  /\ UNCHANGED svars
  /\ UNCHANGED pvars
  /\ UNCHANGED lvars
  /\ UNCHANGED fvars
  /\ UNCHANGED rvars
  /\ UNCHANGED hvars

\* a plausible slip: links are enqueued without looking at visited_urls
NewLinks_nocheck(links, visited) == links

\* the links of a page that are enqueued
NewLinks(links, visited) == links \ visited

\* a plausible slip: links are extracted at max_depth too
ExtractsLinks_le(depth, limit) == depth <= limit

\* line 190: links are extracted if not at max depth
ExtractsLinks(depth, limit) == depth < limit

\* one iteration: the page is fetched and accepted
CrawlFetchAccept ==
  /\ cpc = "loop" /\ LoopRuns
  /\ Head(queue).depth <= max_depth
  /\ \E response \in PageResponses :
       /\ Accepted(response)
       /\ last_response' = ResponseHead(response)
       /\ discovered_urls' = Append(discovered_urls, Head(queue).url)
       /\ fetch_log' = Append(fetch_log, [url |-> Head(queue).url,
                                          depth |-> Head(queue).depth, accepted |-> TRUE])
       /\ IF ExtractsLinks(Head(queue).depth, max_depth) /\ ~response.bad_href
          THEN LET links == extract_links(domain, disallowed_paths,
                                          Head(queue).url, response.hrefs)
                   new == NewLinks(links, visited_urls)
               IN \E order \in Orders(new) :
                    /\ queue' = Tail(queue) \o
                         [i \in 1..Len(order) |->
                            [url |-> order[i], depth |-> Head(queue).depth + 1]]
                    /\ visited_urls' = MarkVisited(visited_urls, new)
                    /\ enq_log' = enq_log \o order
                    /\ UNCHANGED missed_links
          ELSE /\ queue' = Tail(queue)
               /\ UNCHANGED <<visited_urls, enq_log>>
               /\ missed_links' =
                    IF ExtractsLinks(Head(queue).depth, max_depth)
                    THEN missed_links \cup
                           (extract_links(domain, disallowed_paths, Head(queue).url,
                                          response.hrefs) \ visited_urls)
                    ELSE missed_links
  /\ UNCHANGED <<site_url, max_depth, max_pages, cpc, base_url, domain, disallowed_paths,
                 crawl_result>>
  /\ UNCHANGED uvars
  /\ UNCHANGED svars
  /\ UNCHANGED pvars
  /\ UNCHANGED lvars
  /\ UNCHANGED fvars
  /\ UNCHANGED rvars
  /\ UNCHANGED first_result

\* one iteration: the fetch raises, or the response is not a 200 text/html one
CrawlFetchReject ==
  /\ cpc = "loop" /\ LoopRuns
  /\ Head(queue).depth <= max_depth
  /\ \E response \in PageResponses :
       /\ ~Accepted(response)
       /\ last_response' = ResponseHead(response)
  /\ queue' = Tail(queue)
  /\ fetch_log' = Append(fetch_log, [url |-> Head(queue).url,
                                     depth |-> Head(queue).depth, accepted |-> FALSE])
  /\ UNCHANGED <<site_url, max_depth, max_pages, cpc, base_url, domain, disallowed_paths,
                 visited_urls, discovered_urls, enq_log, crawl_result>>
  /\ UNCHANGED uvars
  /\ UNCHANGED svars
  /\ UNCHANGED pvars
  /\ UNCHANGED lvars
  /\ UNCHANGED fvars
  /\ UNCHANGED rvars
  /\ UNCHANGED <<first_result, missed_links>>

\* the loop condition fails: crawl() returns self.discovered_urls
CrawlReturn ==
  /\ cpc = "loop" /\ ~LoopRuns
  /\ crawl_result' = discovered_urls
  /\ cpc' = "returned"
  /\ UNCHANGED <<site_url, max_depth, max_pages, base_url, domain, disallowed_paths,
                 visited_urls, discovered_urls, queue, enq_log, fetch_log>>
  /\ UNCHANGED uvars
  /\ UNCHANGED svars
  /\ UNCHANGED pvars
  /\ UNCHANGED lvars
  /\ UNCHANGED fvars
  /\ UNCHANGED rvars
  /\ UNCHANGED hvars

NextCrawl ==
  \/ WebCrawler_init
  \/ CrawlStart
  \/ CrawlSkipDeep
  \/ CrawlFetchAccept
  \/ CrawlFetchReject
  \/ CrawlReturn

SpecCrawl == InitCrawl /\ [][NextCrawl]_vars

\* where the run of the crawler is: every step of it changes this
CrawlPosition == <<cpc, queue, fetch_log>>

\* every request returns or times out (timeout=10) and the loop goes on: a
\* step that can be taken is taken
SpecCrawlLive == InitCrawl /\ [][NextCrawl]_vars /\ WF_CrawlPosition(NextCrawl)

\* crawl() is called a second time on the crawler whose crawl() has returned:
\* visited_urls and discovered_urls are attributes set in __init__ only
CrawlAgain ==
  /\ cpc = "returned"
  /\ first_result = NoList
  /\ first_result' = crawl_result
  /\ cpc' = "ready"
  /\ UNCHANGED <<site_url, max_depth, max_pages, base_url, domain, disallowed_paths,
                 visited_urls, discovered_urls, queue, enq_log, fetch_log, crawl_result>>
  /\ UNCHANGED <<last_response, missed_links>>
  /\ UNCHANGED uvars
  /\ UNCHANGED svars
  /\ UNCHANGED pvars
  /\ UNCHANGED lvars
  /\ UNCHANGED fvars
  /\ UNCHANGED rvars

NextRecrawl == NextCrawl \/ CrawlAgain

\* a crawler on which crawl() is called twice
SpecRecrawl == InitCrawl /\ [][NextRecrawl]_vars

\* ------------------------------------------------------------------------
\* Sitemap files handed to parse_sitemap
\* ------------------------------------------------------------------------
\* texts of loc elements
LocTexts ==
  {BaseH, BaseH \o <<"/">>, BaseH \o <<"/", "a">>, BaseH \o <<"/", "a", "/">>,
   <<" ">> \o BaseH \o <<"/", "a", "?", "a", " ">>,
   <<"ftp", ":", "/", "/", "h", "/", "a", "/">>, <<" ">>}

\* children of the root: url elements with one loc, a url element whose
\* first loc is empty and that has two more, a url element without loc, and
\* a sitemap element
EntryPool ==
  {Node(Ns("url"), <<Leaf(Ns("loc"), t)>>) : t \in LocTexts}
  \cup {Node(<<"url">>, <<Leaf(<<"lastmod">>, <<"d">>), Leaf(<<"loc">>, NONE),
                          Leaf(<<"loc">>, BaseH \o <<"/", "b">>),
                          Leaf(<<"loc">>, BaseH \o <<"/", "a">>)>>),
        Node(Ns("url"), <<Leaf(Ns("lastmod"), <<"d">>)>>),
        Node(Ns("sitemap"), <<Leaf(Ns("loc"), BaseH \o <<"/", "a">>)>>)}

SitemapFiles ==
  {[kind |-> "empty"], [kind |-> "malformed"]}
  \cup {[kind |-> "xml", root |-> Node(Ns("urlset"), es)] :
          es \in SeqsUpTo(EntryPool, MaxEntries)}

InitSitemap ==
  /\ UrlIdle
  /\ CrawlIdle
  /\ ProcIdle
  /\ sm_file \in SitemapFiles
  /\ parse_result = NONE
  /\ parse_raised = FALSE
  /\ LinksIdle
  /\ FinderIdle
  /\ RobotsIdle
  /\ HistoryIdle

\* parse_sitemap returns the list
ParseSitemapReturn ==
  /\ parse_result = NONE /\ ~parse_raised
  /\ ~parse_sitemap(sm_file).raised
  /\ parse_result' = parse_sitemap(sm_file).urls
  /\ UNCHANGED <<sm_file, parse_raised>>
  /\ UNCHANGED uvars
  /\ UNCHANGED cvars
  /\ UNCHANGED pvars
  /\ UNCHANGED lvars
  /\ UNCHANGED fvars
  /\ UNCHANGED rvars
  /\ UNCHANGED hvars

\* parse_sitemap logs the error and raises it again
ParseSitemapRaise ==
  /\ parse_result = NONE /\ ~parse_raised
  /\ parse_sitemap(sm_file).raised
  /\ parse_raised' = TRUE
  /\ UNCHANGED <<sm_file, parse_result>>
  /\ UNCHANGED uvars
  /\ UNCHANGED cvars
  /\ UNCHANGED pvars
  /\ UNCHANGED lvars
  /\ UNCHANGED fvars
  /\ UNCHANGED rvars
  /\ UNCHANGED hvars

NextSitemap == ParseSitemapReturn \/ ParseSitemapRaise

SpecSitemap == InitSitemap /\ [][NextSitemap]_vars

\* ------------------------------------------------------------------------
\* Calls of process_website
\* ------------------------------------------------------------------------
SitemapUrl == BaseH \o <<"/", "sitemap", ".", "xml">>

\* outcomes of find_sitemap_url
FindOutcomes == {NONE, SitemapUrl}

UrlEntry(text) == Node(Ns("url"), <<Leaf(Ns("loc"), text)>>)

\* what is served at a sitemap URL: an error status, an empty body,
\* malformed XML, a urlset without url elements, and urlsets with entries
ServedDocs ==
  {[kind |-> "http_error"], [kind |-> "empty"], [kind |-> "malformed"],
   [kind |-> "xml", root |-> Node(Ns("urlset"), <<>>)],
   [kind |-> "xml", root |-> Node(Ns("urlset"), <<UrlEntry(BaseH \o <<"/", "a">>)>>)],
   [kind |-> "xml", root |-> Node(Ns("urlset"),
      <<UrlEntry(BaseH \o <<"/", "a">>), UrlEntry(BaseH \o <<"/", "a", "/">>),
        UrlEntry(BaseH \o <<"/", "b">>)>>)]}

Limits ==
  {[given |-> FALSE, n |-> 0]} \cup {[given |-> TRUE, n |-> k] : k \in 0..MaxLimit}

\* answers to "Your choice (1/2/3): " after strip()
Choices == {"1", "2", "3", "", "y"}

\* answers to "Enter the sitemap URL: "
ManualInputs == {<<>>, <<" ">>, <<" ">> \o SitemapUrl}

InitProc ==
  /\ UrlIdle
  /\ site_url \in SiteUrls
  /\ max_depth \in -1..MaxCrawlDepthArg
  /\ max_pages \in 0..MaxCrawlPagesArg
  /\ cpc = "idle"
  /\ base_url = <<>> /\ domain = <<>> /\ disallowed_paths = <<>>
  /\ visited_urls = {} /\ discovered_urls = <<>> /\ queue = <<>>
  /\ enq_log = <<>> /\ fetch_log = <<>> /\ crawl_result = NoList
  /\ SitemapIdle
  /\ augment_kw \in BOOLEAN
  /\ net_find \in FindOutcomes
  /\ net_doc \in (IF net_find = NONE THEN {NoFile} ELSE ServedDocs)
  /\ ppc = "call" /\ choice = "none" /\ sitemap_url = NONE
  /\ sitemap_source = "none" /\ gen_urls = NONE /\ saved_sitemap = NoFile
  /\ written = {} /\ extracted = <<>> /\ proc_error = NoError
  /\ proc_result = NONE
  /\ LinksIdle
  /\ FinderIdle
  /\ RobotsIdle
  /\ HistoryIdle

\* the call passes a keyword the signature (lines 565-567) does not have
ProcessCallRejected ==
  /\ ppc = "call" /\ augment_kw
  /\ ppc' = "raised"
  /\ proc_error' = [type |-> "TypeError", msg |-> "unexpected keyword argument"]
  /\ UNCHANGED <<augment_kw, net_find, net_doc, choice,
                 sitemap_url, sitemap_source, gen_urls, saved_sitemap, written,
                 extracted, proc_result>>
  /\ UNCHANGED uvars
  /\ UNCHANGED cvars
  /\ UNCHANGED svars
  /\ UNCHANGED lvars
  /\ UNCHANGED fvars
  /\ UNCHANGED rvars
  /\ UNCHANGED hvars

\* download_sitemap(url) in process_website, the response being doc:
\* raise_for_status raises, or the body is written to a temporary file
Download(source, doc) ==
  IF doc.kind = "http_error"
  THEN /\ ppc' = "raised"
       /\ proc_error' = [type |-> "HTTPError", msg |-> "status"]
       /\ UNCHANGED <<sm_file, sitemap_source>>
  ELSE /\ ppc' = "have_sitemap"
       /\ sm_file' = doc
       /\ sitemap_source' = source
       /\ UNCHANGED proc_error

\* find_sitemap_url returns a URL: the sitemap is downloaded
ProcFound ==
  /\ ppc = "call" /\ ~augment_kw
  /\ net_find # NONE
  /\ sitemap_url' = net_find
  /\ Download("found", net_doc)
  /\ UNCHANGED <<augment_kw, net_find, net_doc, choice,
                 gen_urls, saved_sitemap, written, extracted, proc_result>>
  /\ UNCHANGED <<parse_result, parse_raised>>
  /\ UNCHANGED uvars
  /\ UNCHANGED cvars
  /\ UNCHANGED lvars
  /\ UNCHANGED fvars
  /\ UNCHANGED rvars
  /\ UNCHANGED hvars

\* find_sitemap_url returns None: the menu is printed
ProcPrompt ==
  /\ ppc = "call" /\ ~augment_kw
  /\ net_find = NONE
  /\ ppc' = "prompt"
  /\ UNCHANGED <<augment_kw, net_find, net_doc, choice,
                 sitemap_url, sitemap_source, gen_urls, saved_sitemap, written,
                 extracted, proc_error, proc_result>>
  /\ UNCHANGED uvars
  /\ UNCHANGED cvars
  /\ UNCHANGED svars
  /\ UNCHANGED lvars
  /\ UNCHANGED fvars
  /\ UNCHANGED rvars
  /\ UNCHANGED hvars

\* choice 1: a WebCrawler is constructed and crawl() is called
ProcChooseCrawl ==
  /\ ppc = "prompt"
  /\ \E c \in Choices : ChoiceBranch(c) = "crawl" /\ choice' = c
  /\ cpc' = "new"
  /\ ppc' = "crawling"
  /\ UNCHANGED <<site_url, max_depth, max_pages, base_url, domain, disallowed_paths,
                 visited_urls, discovered_urls, queue, enq_log, fetch_log, crawl_result>>
  /\ UNCHANGED <<augment_kw, net_find, net_doc,
                 sitemap_url, sitemap_source, gen_urls, saved_sitemap, written,
                 extracted, proc_error, proc_result>>
  /\ UNCHANGED uvars
  /\ UNCHANGED svars
  /\ UNCHANGED lvars
  /\ UNCHANGED fvars
  /\ UNCHANGED rvars
  /\ UNCHANGED hvars

\* crawl() has returned: a sitemap is generated from the list, or ValueError
ProcCrawlDone ==
  /\ ppc = "crawling" /\ cpc = "returned"
  /\ IF HasPages(crawl_result)
     THEN /\ gen_urls' = crawl_result
          /\ sm_file' = generate_sitemap(crawl_result)
          /\ sitemap_source' = "generated"
          /\ ppc' = "have_sitemap"
          /\ UNCHANGED proc_error
     ELSE /\ ppc' = "raised"
          /\ proc_error' = [type |-> "ValueError",
                            msg |-> "No pages could be discovered through crawling"]
          /\ UNCHANGED <<gen_urls, sm_file, sitemap_source>>
  /\ UNCHANGED <<augment_kw, net_find, net_doc, choice,
                 sitemap_url, saved_sitemap, written, extracted, proc_result>>
  /\ UNCHANGED <<parse_result, parse_raised>>
  /\ UNCHANGED uvars
  /\ UNCHANGED cvars
  /\ UNCHANGED lvars
  /\ UNCHANGED fvars
  /\ UNCHANGED rvars
  /\ UNCHANGED hvars

\* choice 2: a sitemap URL is read and downloaded, or ValueError when empty
ProcChooseManual ==
  /\ ppc = "prompt"
  /\ \E c \in Choices : ChoiceBranch(c) = "manual" /\ choice' = c
  /\ \E input \in ManualInputs :
       /\ sitemap_url' = Strip(input)
       /\ IF Strip(input) # <<>>
          THEN \E doc \in ServedDocs : Download("manual", doc)
          ELSE /\ ppc' = "raised"
               /\ proc_error' = [type |-> "ValueError", msg |-> "No sitemap URL provided"]
               /\ UNCHANGED <<sm_file, sitemap_source>>
  /\ UNCHANGED <<augment_kw, net_find, net_doc,
                 gen_urls, saved_sitemap, written, extracted, proc_result>>
  /\ UNCHANGED <<parse_result, parse_raised>>
  /\ UNCHANGED uvars
  /\ UNCHANGED cvars
  /\ UNCHANGED lvars
  /\ UNCHANGED fvars
  /\ UNCHANGED rvars
  /\ UNCHANGED hvars

\* any other answer: ValueError
ProcChooseCancel ==
  /\ ppc = "prompt"
  /\ \E c \in Choices : ChoiceBranch(c) = "cancel" /\ choice' = c
  /\ ppc' = "raised"
  /\ proc_error' = [type |-> "ValueError", msg |-> "Operation cancelled by user"]
  /\ UNCHANGED <<augment_kw, net_find, net_doc,
                 sitemap_url, sitemap_source, gen_urls, saved_sitemap, written,
                 extracted, proc_result>>
  /\ UNCHANGED uvars
  /\ UNCHANGED cvars
  /\ UNCHANGED svars
  /\ UNCHANGED lvars
  /\ UNCHANGED fvars
  /\ UNCHANGED rvars
  /\ UNCHANGED hvars

\* lines 617-675 when parse_sitemap raises: the directory and the copy of
\* the sitemap are written, the temporary file is removed, the error leaves
ProcParseFails ==
  /\ ppc = "have_sitemap"
  /\ parse_sitemap(sm_file).raised
  /\ saved_sitemap' = sm_file
  /\ \E separate_files \in BOOLEAN :
       written' = WrittenBeforeParse(separate_files)
  /\ parse_raised' = TRUE
  /\ sm_file' = NoFile
  /\ ppc' = "raised"
  /\ proc_error' = [type |-> "ParseError", msg |-> "parse"]
  /\ UNCHANGED <<augment_kw, net_find, net_doc, choice,
                 sitemap_url, sitemap_source, gen_urls, extracted, proc_result>>
  /\ UNCHANGED parse_result
  /\ UNCHANGED uvars
  /\ UNCHANGED cvars
  /\ UNCHANGED lvars
  /\ UNCHANGED fvars
  /\ UNCHANGED rvars
  /\ UNCHANGED hvars

\* lines 617-675 when parse_sitemap returns: the URLs, cut to the limit, are
\* extracted one by one, the results are saved, the temporary file is removed
\* (the arguments limit and separate_files are drawn where they are read)
ProcExtract ==
  /\ ppc = "have_sitemap"
  /\ ~parse_sitemap(sm_file).raised
  /\ saved_sitemap' = sm_file
  /\ parse_result' = parse_sitemap(sm_file).urls
  /\ \E limit \in Limits :
       extracted' = LimitUrls(limit, parse_sitemap(sm_file).urls)
  /\ \E separate_files \in BOOLEAN :
       written' = WrittenBeforeParse(separate_files) \cup WrittenAfterExtract(separate_files)
  /\ \E successful \in 0..Len(extracted') : \E failed \in 0..(Len(extracted') - successful) :
       proc_result' = <<successful, failed>>
  /\ sm_file' = NoFile
  /\ ppc' = "returned"
  /\ UNCHANGED <<augment_kw, net_find, net_doc, choice,
                 sitemap_url, sitemap_source, gen_urls, proc_error>>
  /\ UNCHANGED parse_raised
  /\ UNCHANGED uvars
  /\ UNCHANGED cvars
  /\ UNCHANGED lvars
  /\ UNCHANGED fvars
  /\ UNCHANGED rvars
  /\ UNCHANGED hvars

NextProc ==
  \/ ProcessCallRejected
  \/ ProcFound
  \/ ProcPrompt
  \/ ProcChooseCrawl
  \/ WebCrawler_init
  \/ CrawlStart
  \/ CrawlSkipDeep
  \/ CrawlFetchAccept
  \/ CrawlFetchReject
  \/ CrawlReturn
  \/ ProcCrawlDone
  \/ ProcChooseManual
  \/ ProcChooseCancel
  \/ ProcParseFails
  \/ ProcExtract

SpecProc == InitProc /\ [][NextProc]_vars

\* ------------------------------------------------------------------------
\* Calls of _extract_links and of _is_valid_url
\* ------------------------------------------------------------------------

\* the URL of the page whose links are extracted
PageUrls == {BaseH \o <<"/">>, BaseH \o <<"/", "a">>}

\* href attributes of a page: the site root written three ways, paths with
\* and without trailing slash, query and fragment, another host, an asset,
\* another scheme, and an empty href
LinkHrefs ==
  {BaseH, BaseH \o <<"/">>, BaseH \o <<"/", "/">>,
   <<"/", "a">>, <<"/", "a", "/">>, <<"/", "b", "/">>, <<"/", "b", "#", "a">>,
   <<"b", "?", "a">>, <<"https", ":", "/", "/", "o", "/", "a">>,
   <<"/", "/", "o", "/", "a">>, <<"/", "a", ".", "jpg">>,
   <<"ftp", ":", "/", "/", "h", "/", "a">>, <<>>}

LinkHrefSets == {H \in SUBSET LinkHrefs : Cardinality(H) <= MaxLinks}

\* self.disallowed_paths
RuleSets == {<<>>, <<<<"/", "b">>>>}

\* paths of the URLs handed to _is_valid_url
ValidPaths ==
  {<<>>, <<"/">>, <<"/", "a">>, <<"/", "b">>, <<"/", "b", "/", "a">>,
   <<"/", "api">>, <<"/", "api", "/">>, <<"/", "API">>, <<"/", "API", "/">>,
   <<"/", "api", "/", "a">>, <<"/", "docs", "/", "api">>,
   <<"/", "docs", "/", "api", "/">>, <<"/", "docs", "/", "api", "/", "a">>,
   <<"/", "docs", "/", "api", "/", "admin", "-", "graphql">>,
   <<"/", "a", ".", "jpg">>, <<"/", "a", ".", "JPG">>, <<"/", "login">>}

ValidUrls ==
  {scheme \o <<":", "/", "/">> \o host \o path :
     scheme \in {<<"https">>, <<"http">>, <<"ftp">>},
     host \in {<<"h">>, <<"o">>}, path \in ValidPaths}

InitLinks ==
  /\ link_domain = <<"h">>
  /\ link_rules \in RuleSets
  /\ \/ /\ page_url \in PageUrls
        /\ page_hrefs \in LinkHrefSets
        /\ valid_url = NONE
     \/ /\ page_url = NONE
        /\ page_hrefs = {}
        /\ valid_url \in ValidUrls
  /\ link_list = NONE
  /\ valid_result = "none"
  /\ UrlIdle
  /\ CrawlIdle
  /\ SitemapIdle
  /\ ProcIdle
  /\ FinderIdle
  /\ RobotsIdle
  /\ HistoryIdle

\* _extract_links(url, html): list(set(links)) in some order
ExtractLinks ==
  /\ page_url # NONE /\ link_list = NONE
  /\ \E order \in Orders(extract_links(link_domain, link_rules, page_url, page_hrefs)) :
       link_list' = order
  /\ UNCHANGED <<link_domain, link_rules, page_url, page_hrefs, valid_url, valid_result>>
  /\ UNCHANGED uvars
  /\ UNCHANGED cvars
  /\ UNCHANGED svars
  /\ UNCHANGED pvars
  /\ UNCHANGED fvars
  /\ UNCHANGED rvars
  /\ UNCHANGED hvars

\* _is_valid_url(url)
IsValidUrl ==
  /\ valid_url # NONE /\ valid_result = "none"
  /\ valid_result' = IF is_valid_url(link_domain, link_rules, valid_url)
                     THEN "True" ELSE "False"
  /\ UNCHANGED <<link_domain, link_rules, page_url, page_hrefs, link_list, valid_url>>
  /\ UNCHANGED uvars
  /\ UNCHANGED cvars
  /\ UNCHANGED svars
  /\ UNCHANGED pvars
  /\ UNCHANGED fvars
  /\ UNCHANGED rvars
  /\ UNCHANGED hvars

NextLinks == ExtractLinks \/ IsValidUrl

SpecLinks == InitLinks /\ [][NextLinks]_vars

\* ------------------------------------------------------------------------
\* SitemapFinder.find_sitemap_url
\* ------------------------------------------------------------------------
MaxAnchors == 2

\* SitemapFinder.__init__: the base URL without trailing slashes
SitemapFinder_init(url) == RStrip(url, "/")

\* lines 249-261
common_paths ==
  << <<"/", "sitemap", ".", "xml">>,
     <<"/", "sitemap", "_", "index", ".", "xml">>,
     <<"/", "sitemap", "-", "index", ".", "xml">>,
     <<"/", "sitemap", "index", ".", "xml">>,
     <<"/", "sitemap", "/">>,
     <<"/", "sitemap", ".", "txt">>,
     <<"/", "sitemap", ".", "xml", ".", "gz">>,
     <<"/", "wp", "-", "sitemap", ".", "xml">>,
     <<"/", "page", "-", "sitemap", ".", "xml">>,
     <<"/", "post", "-", "sitemap", ".", "xml">>,
     <<"/", "news", "-", "sitemap", ".", "xml">> >>

\* the exceptions caught by `except requests.RequestException`
RequestException_timeoutonly == {"Timeout"}

RequestException == {"Timeout", "ConnectionError"}

\* sitemap_url.startswith('http')
StartsWithHttp(value) == value # <<>> /\ value[1] \in {"http", "https"}

\* lines 300-306: the value of the first Sitemap: line, NONE without one
RECURSIVE SitemapOfLines(_, _)
SitemapOfLines(base, lines) ==
  IF lines = <<>> THEN NONE
  ELSE IF StartsWith(LowerStr(Strip(Head(lines))), <<"sitemap", ":">>)
  THEN IF StartsWithHttp(Strip(SplitAt(Head(lines), ":").tail))
       THEN Strip(SplitAt(Head(lines), ":").tail)
       ELSE urljoin(base, Strip(SplitAt(Head(lines), ":").tail))
  ELSE SitemapOfLines(base, Tail(lines))

\* _check_robots_txt on the outcome of session.get(robots_url): the value
\* returned, or the exception that leaves the method
check_robots_txt(base, response) ==
  IF response.kind = "error"
  THEN [raised |-> response.exc \notin RequestException, exc |-> response.exc,
        value |-> NONE]
  ELSE [raised |-> FALSE, exc |-> "none",
        value |-> IF response.status = 200
                  THEN SitemapOfLines(base, SplitSeq(response.text, "\n"))
                  ELSE NONE]

\* 'xml' in content_type.lower() or text.strip().startswith('<?xml')
LooksLikeXml(response) ==
  \/ Contains(LowerStr(response.content_type), <<"xml">>)
  \/ StartsWith(Strip(response.text), <<"<?xml">>)

\* lines 272-282 for one path: head is the outcome of session.head(url), get
\* the outcome of session.get(url) when it is issued
CommonAccepts(probe) ==
  /\ probe.head.kind = "resp" /\ probe.head.status = 200
  /\ probe.get.kind = "resp" /\ LooksLikeXml(probe.get)

\* the exception one probe of a common path raises, "none" without one
CommonRaised(probe) ==
  IF probe.head.kind = "error" THEN probe.head.exc
  ELSE IF probe.head.status = 200 /\ probe.get.kind = "error" THEN probe.get.exc
  ELSE "none"

\* where find_sitemap_url goes on after the probe of common_paths[idx]
AfterCommon_noreturn(idx, accepted) ==
  IF idx < Len(common_paths) THEN "common" ELSE "html"

AfterCommon(idx, accepted) ==
  IF accepted THEN "done"
  ELSE IF idx < Len(common_paths) THEN "common" ELSE "html"

\* 'sitemap' in href.lower()
MentionsSitemap(href) == Contains(LowerStr(href), <<"sitemap">>)

\* urljoin(self.base_url, href) raises ValueError on a bracket that opens no
\* IPv6 address
JoinRaises(href) == \E k \in 1..Len(href) : href[k] = "["

\* lines 319-329: the anchors are walked in document order; heads[i] is the
\* outcome of session.head for the ith anchor. acc holds the requests made
\* and the number of them that raised; the result adds the URL returned (NONE
\* without one) and the exception that leaves the method.
RECURSIVE ScanAnchors(_, _, _, _)
ScanAnchors(base, anchors, heads, acc) ==
  IF anchors = <<>> THEN [log |-> acc.log, errors |-> acc.errors, value |-> NONE, exc |-> "none"]
  ELSE IF ~MentionsSitemap(Head(anchors))
  THEN ScanAnchors(base, Tail(anchors), Tail(heads), acc)
  ELSE IF JoinRaises(Head(anchors))
  THEN [log |-> acc.log, errors |-> acc.errors, value |-> NONE, exc |-> "ValueError"]
  ELSE IF Head(heads).kind = "resp" /\ Head(heads).status = 200
  THEN [log |-> Append(acc.log, [step |-> "html", url |-> urljoin(base, Head(anchors)),
                                 ok |-> TRUE]),
        errors |-> acc.errors,
        value |-> urljoin(base, Head(anchors)), exc |-> "none"]
  ELSE ScanAnchors(base, Tail(anchors), Tail(heads),
                   [log |-> Append(acc.log, [step |-> "html",
                                             url |-> urljoin(base, Head(anchors)),
                                             ok |-> FALSE]),
                    errors |-> acc.errors + (IF Head(heads).kind = "error" THEN 1 ELSE 0)])

\* _check_html_for_sitemap on the outcome of session.get(self.base_url)
check_html_for_sitemap(base, page, heads, acc) ==
  IF page.kind = "error"
  THEN [log |-> acc.log, errors |-> acc.errors + 1, value |-> NONE,
        exc |-> IF page.exc \in RequestException THEN "none" ELSE page.exc]
  ELSE IF page.status # 200
  THEN [log |-> acc.log, errors |-> acc.errors, value |-> NONE, exc |-> "none"]
  ELSE ScanAnchors(base, page.anchors, heads, acc)

\* ------------------------------------------------------------------------
\* The site seen by SitemapFinder
\* ------------------------------------------------------------------------
FinderSites == {BaseH, BaseH \o <<"/">>, BaseH \o <<"/", "a", "/">>}

NetErrors == {[kind |-> "error", exc |-> e] : e \in {"Timeout", "ConnectionError"}}

\* outcomes of session.get(robots_url)
FinderRobots ==
  NetErrors
  \cup {[kind |-> "resp", status |-> 404, text |-> <<"Sitemap", ":", " ", "/", "b">>]}
  \cup {[kind |-> "resp", status |-> 200, text |-> t] :
          t \in {<<>>,
                 <<"User-agent", ":", " ", "*", "\n", "Disallow", ":", " ", "/", "b">>,
                 <<"User-agent", ":", " ", "*", "\n", " ", "Sitemap", ":", " ">>
                   \o SitemapUrl \o <<" ", "\n", "Sitemap", ":", "/", "b">>,
                 <<"sitemap", ":", "/", "b">>,
                 <<"Sitemap", ":">>}}

\* outcomes of session.head(url) without a body
HeadOutcomes ==
  NetErrors \cup {[kind |-> "resp", status |-> s] : s \in {200, 404}}

\* outcomes of session.get(url) on a common path
GetOutcomes ==
  NetErrors
  \cup {[kind |-> "resp", status |-> 200, content_type |-> c, text |-> t] :
          c \in {<<>>, <<"text", "/", "html">>, <<"application", "/", "XML">>},
          t \in {<<>>, <<"<html">>, <<" ", "<?xml", " ", "<urlset">>}}

\* the requests of one common path: no GET without a HEAD of status 200
CommonProbes ==
  {[head |-> h, get |-> NoResponse] :
     h \in {x \in HeadOutcomes : x.kind = "error" \/ x.status # 200}}
  \cup {[head |-> [kind |-> "resp", status |-> 200], get |-> g] : g \in GetOutcomes}

\* href attributes of the anchors of the homepage
AnchorPool ==
  {<<"/", "a">>, <<"/", "b", "/", "Sitemap", ".", "xml">>, <<"sitemap", "-", "a">>,
   <<"/", "/", "[", "sitemap">>}

\* outcomes of session.get(self.base_url)
HomePages ==
  NetErrors
  \cup {[kind |-> "resp", status |-> 404, anchors |-> <<<<"sitemap", "-", "a">>>>]}
  \cup {[kind |-> "resp", status |-> 200, anchors |-> a] :
          a \in SeqsUpTo(AnchorPool, MaxAnchors)}

\* ------------------------------------------------------------------------
\* SitemapFinder.download_sitemap and _process_sitemap_index
\* ------------------------------------------------------------------------
MaxChildren == 2

\* 'sitemapindex' in a string of the document
WordMentionsIndex(text) ==
  text # NONE /\ (Contains(text, <<"sitemapindex">>) \/ Contains(text, <<"sitemap", "index">>))

\* 'sitemapindex' in the tags and texts of a sequence of sibling elements
RECURSIVE TreeMentionsIndex(_)
TreeMentionsIndex(elems) ==
  IF elems = <<>> THEN FALSE
  ELSE \/ WordMentionsIndex(Head(elems).tag)
       \/ WordMentionsIndex(Head(elems).text)
       \/ TreeMentionsIndex(Head(elems).children \o Tail(elems))

\* line 342: 'sitemapindex' in response.text
MentionsIndex(body) ==
  CASE body.kind = "xml" -> TreeMentionsIndex(<<body.root>>)
    [] body.kind = "malformed" -> body.mentions
    [] OTHER -> FALSE

\* lines 363-366: the stripped texts of the loc elements, in document order
RECURSIVE IndexLocs(_)
IndexLocs(elems) ==
  IF elems = <<>> THEN <<>>
  ELSE (IF LocalName(Head(elems).tag) = <<"loc">> /\ Truthy(Head(elems).text)
        THEN <<Strip(Head(elems).text)>> ELSE <<>>)
       \o IndexLocs(Head(elems).children \o Tail(elems))

\* line 383
UrlDataKeys == {<<"loc">>, <<"lastmod">>, <<"changefreq">>, <<"priority">>}

\* url_data[child_tag] = child.text: a dict keeps the place of a key's first
\* insertion and its last value
SetKey(data, key, value) ==
  IF \E i \in 1..Len(data) : data[i].key = key
  THEN [i \in 1..Len(data) |->
          IF data[i].key = key THEN [key |-> key, value |-> value] ELSE data[i]]
  ELSE Append(data, [key |-> key, value |-> value])

\* lines 380-384: the loop over the children of a url element
RECURSIVE UrlDataOf(_, _)
UrlDataOf(children, data) ==
  IF children = <<>> THEN data
  ELSE UrlDataOf(Tail(children),
                 IF LocalName(Head(children).tag) \in UrlDataKeys
                 THEN SetKey(data, LocalName(Head(children).tag), Head(children).text)
                 ELSE data)

\* lines 377-386: sitemap_root.iter(), one url_data per url element that has
\* a loc child
RECURSIVE UrlEntriesOf(_)
UrlEntriesOf(elems) ==
  IF elems = <<>> THEN <<>>
  ELSE (IF LocalName(Head(elems).tag) = <<"url">>
           /\ \E i \in 1..Len(UrlDataOf(Head(elems).children, <<>>)) :
                UrlDataOf(Head(elems).children, <<>>)[i].key = <<"loc">>
        THEN <<UrlDataOf(Head(elems).children, <<>>)>> ELSE <<>>)
       \o UrlEntriesOf(Head(elems).children \o Tail(elems))

\* lines 372-390 for one child: a request that raises, a status other than
\* 200 and a body ET.fromstring cannot parse add nothing
ChildEntries(response) ==
  IF response.kind = "error" THEN <<>>
  ELSE IF response.status # 200 THEN <<>>
  ELSE IF response.body.kind # "xml" THEN <<>>
  ELSE UrlEntriesOf(<<response.body.root>>)

\* the loop of line 371 over the first n children
RECURSIVE AllUrls(_, _)
AllUrls(children, n) ==
  IF n = 0 THEN <<>>
  ELSE AllUrls(children, n - 1) \o ChildEntries(children[n])

\* the pairs of url_data that are written: `if value`
WrittenPairs(data) == SelectSeq(data, LAMBDA p : Truthy(p.value))

\* lines 393-403: the values are written as they are
CombinedFile(all_urls) ==
  IF \E i \in 1..Len(all_urls) : \E j \in 1..Len(all_urls[i]) :
       /\ Truthy(all_urls[i][j].value)
       /\ \E k \in 1..Len(all_urls[i][j].value) : all_urls[i][j].value[k] \in XmlSpecial
  THEN [kind |-> "malformed"]
  ELSE [kind |-> "xml",
        root |-> Node(Ns("urlset"),
                      [i \in 1..Len(all_urls) |->
                         Node(Ns("url"),
                              [j \in 1..Len(WrittenPairs(all_urls[i])) |->
                                 Leaf(Ns(WrittenPairs(all_urls[i])[j].key[1]),
                                      WrittenPairs(all_urls[i])[j].value)])])]

\* _process_sitemap_index: ET.fromstring(index_content) is outside every try
process_sitemap_index(body, children) ==
  IF body.kind # "xml"
  THEN [raised |-> TRUE, exc |-> "ParseError", file |-> NoFile]
  ELSE [raised |-> FALSE, exc |-> "none",
        file |-> CombinedFile(AllUrls(children, Len(IndexLocs(<<body.root>>))))]

\* download_sitemap on the outcome of session.get(sitemap_url)
download_sitemap(top, children) ==
  IF top.kind = "error" THEN [raised |-> TRUE, exc |-> top.exc, file |-> NoFile]
  ELSE IF top.status >= 400 THEN [raised |-> TRUE, exc |-> "HTTPError", file |-> NoFile]
  ELSE IF MentionsIndex(top.body) THEN process_sitemap_index(top.body, children)
  ELSE [raised |-> FALSE, exc |-> "none", file |-> top.body]

\* ------------------------------------------------------------------------
\* What is served to download_sitemap
\* ------------------------------------------------------------------------
ChildUrl == SitemapUrl \o <<".", "gz">>

UrlsetA ==
  [kind |-> "xml",
   root |-> Node(Ns("urlset"),
     <<UrlEntry(BaseH \o <<"/", "a">>),
       Node(Ns("url"), <<Leaf(Ns("loc"), BaseH \o <<"/", "b">>),
                         Leaf(Ns("lastmod"), <<"d">>)>>)>>)]

\* a url element without loc, one with a loc, one with an empty loc
UrlsetB ==
  [kind |-> "xml",
   root |-> Node(Ns("urlset"),
     <<Node(Ns("url"), <<Leaf(Ns("lastmod"), <<"d">>)>>),
       UrlEntry(BaseH \o <<"/", "a", "/">>),
       UrlEntry(NONE)>>)]

\* <loc>https://h/a?a&amp;b</loc>
UrlsetAmp ==
  [kind |-> "xml",
   root |-> Node(Ns("urlset"), <<UrlEntry(BaseH \o <<"/", "a", "?", "a", "&", "b">>)>>)]

\* a urlset that lists the URL /sitemapindex.xml
UrlsetQuirk ==
  [kind |-> "xml",
   root |-> Node(Ns("urlset"),
     <<UrlEntry(BaseH \o <<"/", "sitemap", "index", ".", "xml">>)>>)]

\* a sitemap index of n children
IndexDoc(n) ==
  [kind |-> "xml",
   root |-> Node(Ns("sitemapindex"),
                 [i \in 1..n |-> Node(Ns("sitemap"), <<Leaf(Ns("loc"), ChildUrl)>>)])]

\* the body of gzip-compressed bytes read as text
Gzip(doc) == [kind |-> "gzip", doc |-> doc]

\* outcomes of session.get for a sitemap of the index
ChildResponses ==
  {[kind |-> "error", exc |-> "ConnectionError"],
   [kind |-> "resp", status |-> 404, body |-> UrlsetA]}
  \cup {[kind |-> "resp", status |-> 200, body |-> b] :
          b \in {UrlsetA, UrlsetB, UrlsetAmp, [kind |-> "malformed", mentions |-> FALSE],
                 Gzip(UrlsetA)}}

TopBodies ==
  {UrlsetA, UrlsetQuirk, [kind |-> "empty"], Gzip(UrlsetA)}
  \cup {[kind |-> "malformed", mentions |-> b] : b \in BOOLEAN}
  \cup {IndexDoc(n) : n \in 1..MaxChildren}

\* outcomes of session.get(sitemap_url)
TopResponses ==
  NetErrors
  \cup {[kind |-> "resp", status |-> s, body |-> b] : s \in {200, 301, 404}, b \in TopBodies}

\* the number of requests _process_sitemap_index makes for the response
NumChildren(top) ==
  IF top.kind = "resp" /\ top.status < 400 /\ MentionsIndex(top.body)
     /\ top.body.kind = "xml"
  THEN Len(IndexLocs(<<top.body.root>>)) ELSE 0

\* ------------------------------------------------------------------------
\* Calls of find_sitemap_url and of download_sitemap
\* ------------------------------------------------------------------------
\* a SitemapFinder was constructed; either find_sitemap_url or
\* download_sitemap is about to be called on it
InitFinder ==
  /\ UrlIdle /\ CrawlIdle /\ SitemapIdle /\ ProcIdle /\ LinksIdle
  /\ finder_base \in {SitemapFinder_init(u) : u \in FinderSites}
  /\ path_idx = 0
  /\ probe_log = <<>>
  /\ net_errors = 0
  /\ find_result = NONE
  /\ find_error = "none"
  /\ dl_file = NoFile
  /\ dl_error = "none"
  /\ \/ /\ fpc = "robots"
        /\ dl_top = NoResponse
        /\ dl_children = <<>>
     \/ /\ fpc = "download"
        /\ dl_top \in TopResponses
        /\ dl_children \in [1..NumChildren(dl_top) -> ChildResponses]
  /\ RobotsIdle
  /\ HistoryIdle

\* lines 264-267
FindRobots ==
  /\ fpc = "robots"
  /\ \E response \in FinderRobots :
       LET r == check_robots_txt(finder_base, response)
       IN /\ probe_log' = Append(probe_log,
                 [step |-> "robots",
                  url |-> urljoin(finder_base, <<"/", "robots", ".", "txt">>),
                  ok |-> ~r.raised /\ Truthy(r.value)])
          /\ net_errors' = net_errors + (IF response.kind = "error" THEN 1 ELSE 0)
          /\ find_error' = IF r.raised THEN r.exc ELSE "none"
          /\ find_result' = IF ~r.raised /\ Truthy(r.value) THEN r.value ELSE NONE
          /\ fpc' = IF r.raised \/ Truthy(r.value) THEN "done" ELSE "common"
          /\ path_idx' = IF r.raised \/ Truthy(r.value) THEN 0 ELSE 1
  /\ UNCHANGED <<finder_base, dl_top, dl_children, dl_file, dl_error>>
  /\ UNCHANGED <<uvars, cvars, svars, pvars, lvars>>
  /\ UNCHANGED rvars
  /\ UNCHANGED hvars

\* lines 270-282, one turn of the loop
FindCommon ==
  /\ fpc = "common"
  /\ \E probe \in CommonProbes :
       LET url == urljoin(finder_base, common_paths[path_idx])
           exc == CommonRaised(probe)
           raised == exc # "none" /\ exc \notin RequestException
           accepted == CommonAccepts(probe)
           next == IF raised THEN "done" ELSE AfterCommon(path_idx, accepted)
       IN /\ probe_log' = Append(probe_log,
                 [step |-> "common", url |-> url, ok |-> accepted])
          /\ net_errors' = net_errors + (IF exc # "none" THEN 1 ELSE 0)
          /\ find_error' = IF raised THEN exc ELSE "none"
          /\ find_result' = IF accepted THEN url ELSE find_result
          /\ fpc' = next
          /\ path_idx' = IF next = "common" THEN path_idx + 1 ELSE path_idx
  /\ UNCHANGED <<finder_base, dl_top, dl_children, dl_file, dl_error>>
  /\ UNCHANGED <<uvars, cvars, svars, pvars, lvars>>
  /\ UNCHANGED rvars
  /\ UNCHANGED hvars

\* lines 285-291
FindHtml ==
  /\ fpc = "html"
  /\ \E page \in HomePages : \E heads \in [1..MaxAnchors -> HeadOutcomes] :
       LET r == check_html_for_sitemap(finder_base, page, heads,
                  [log |-> Append(probe_log,
                             [step |-> "html", url |-> finder_base, ok |-> FALSE]),
                   errors |-> net_errors])
       IN /\ probe_log' = r.log
          /\ net_errors' = r.errors
          /\ find_error' = r.exc
          /\ find_result' = IF r.exc = "none" /\ Truthy(r.value) THEN r.value
                            ELSE find_result
  /\ fpc' = "done"
  /\ UNCHANGED <<finder_base, path_idx, dl_top, dl_children, dl_file, dl_error>>
  /\ UNCHANGED <<uvars, cvars, svars, pvars, lvars>>
  /\ UNCHANGED rvars
  /\ UNCHANGED hvars

\* download_sitemap(sitemap_url), with _process_sitemap_index
DownloadSitemap ==
  /\ fpc = "download"
  /\ dl_file' = download_sitemap(dl_top, dl_children).file
  /\ dl_error' = download_sitemap(dl_top, dl_children).exc
  /\ fpc' = "done"
  /\ UNCHANGED <<finder_base, path_idx, probe_log, net_errors, find_result, find_error,
                 dl_top, dl_children>>
  /\ UNCHANGED <<uvars, cvars, svars, pvars, lvars>>
  /\ UNCHANGED rvars
  /\ UNCHANGED hvars

NextFinder == FindRobots \/ FindCommon \/ FindHtml \/ DownloadSitemap

SpecFinder == InitFinder /\ [][NextFinder]_vars

\* ------------------------------------------------------------------------
\* Claims about WebCrawler.crawl
\* ------------------------------------------------------------------------

\* C1: over a whole crawl no URL is appended to the frontier queue more than
\* once, whatever pages link to it.
C1_EnqueuedOnce ==
  \A i, j \in 1..Len(enq_log) : enq_log[i] = enq_log[j] => i = j

C1_Witness ==
  /\ cpc = "returned"
  /\ Len(enq_log) >= 3
  /\ \E i, j \in 1..Len(fetch_log) :
       /\ i # j /\ fetch_log[i].accepted /\ fetch_log[j].accepted
       /\ fetch_log[i].depth < max_depth /\ fetch_log[j].depth < max_depth

\* the URLs of the accepted fetches, in the order of acceptance
AcceptedOrder ==
  LET acc == SelectSeq(fetch_log, LAMBDA f : f.accepted)
  IN [i \in 1..Len(acc) |-> acc[i].url]

\* C2 (as stated): the discovered pages never exceed max_pages (for
\* max_pages >= 0); at return the queue is empty or the number of discovered
\* pages equals max_pages; the returned list is the accepted pages in order.
C2_Original ==
  /\ max_pages >= 0 => Len(discovered_urls) <= max_pages
  /\ cpc = "returned" =>
       /\ queue = <<>> \/ Len(discovered_urls) = max_pages
       /\ crawl_result = AcceptedOrder

\* C2 (amended): as stated, with the condition at return also limited to
\* max_pages >= 0; with a negative max_pages the loop never runs and crawl
\* returns the empty list with the start URL still in the queue.
C2_StopsAtCap ==
  /\ max_pages >= 0 => Len(discovered_urls) <= max_pages
  /\ cpc = "returned" =>
       /\ max_pages >= 0 => (queue = <<>> \/ Len(discovered_urls) = max_pages)
       /\ max_pages < 0 => (queue # <<>> /\ discovered_urls = <<>>)
       /\ crawl_result = AcceptedOrder

C2_Witness ==
  /\ cpc = "returned"
  /\ queue # <<>>
  /\ max_pages = 2
  /\ Len(crawl_result) = 2

\* ------------------------------------------------------------------------
\* Claims about _normalize_url
\* ------------------------------------------------------------------------

\* C3: canonicalization is idempotent: once a URL has been normalized,
\* normalizing the result again returns the same string.
C3_Idempotent == [][n1 # NONE => n1' = n1]_vars

IsRootPath(path) == path = <<>> \/ path = <<"/">>

\* v is u with one trailing slash added to its non-root path
SlashPair(u, v) ==
  LET p == urlparse(u)
      q == urlparse(v)
  IN /\ p.scheme \in HttpSchemes
     /\ ~IsRootPath(p.path)
     /\ q = [p EXCEPT !.path = p.path \o <<"/">>]

\* u and v differ at most by query string and fragment
QueryFragPair(u, v) ==
  LET p == urlparse(u)
      q == urlparse(v)
  IN /\ p.scheme \in HttpSchemes
     /\ [q EXCEPT !.query = p.query, !.fragment = p.fragment] = p

LocsOfFile(file) ==
  LET es == file.root.children
      withLoc == SelectSeq(es, LAMBDA e : LocalName(e.tag) = <<"url">>
                                          /\ FirstLoc(e.children) # NONE)
  IN [i \in 1..Len(withLoc) |-> FirstLoc(withLoc[i].children)]

\* the sequence without the later occurrences of its elements
DedupFirst(seq) ==
  LET keep == SelectSeq([i \in 1..Len(seq) |-> [k |-> i, v |-> seq[i]]],
                        LAMBDA e : \A j \in 1..(e.k - 1) : seq[j] # e.v)
  IN [i \in 1..Len(keep) |-> keep[i].v]

\* C5: on a well-formed urlset parse_sitemap returns the canonical form
\* (_normalize_url) of the loc of each url element, later duplicates by
\* canonical form removed, in document order, no string twice.
C5_CanonicalDedup ==
  (sm_file.kind = "xml" /\ parse_result # NONE) =>
    /\ parse_result =
         DedupFirst([i \in 1..Len(LocsOfFile(sm_file)) |->
                       normalize_url(Strip(LocsOfFile(sm_file)[i]))])
    /\ \A i, j \in 1..Len(parse_result) : parse_result[i] = parse_result[j] => i = j

\* C6: parse_sitemap on an empty or malformed file returns the empty list
\* and does not raise.
C6_EmptyListNoRaise ==
  (sm_file.kind \in {"empty", "malformed"}) =>
    /\ ~parse_raised
    /\ parse_result \in {NONE, <<>>}

\* ------------------------------------------------------------------------
\* Claims about process_website
\* ------------------------------------------------------------------------

ProcEnded == ppc \in {"returned", "raised"}

\* the URLs of the sitemap followed by the crawled URLs not among them
Merge(sitemap_urls, crawled) ==
  sitemap_urls \o SelectSeq(crawled, LAMBDA u : \A i \in 1..Len(sitemap_urls) : sitemap_urls[i] # u)

\* C7: with a non-empty sitemap found and augmentation requested, the
\* crawler runs too, the URLs processed and saved to the output sitemap are
\* the sitemap's URLs followed by the crawled URLs not among them, and
\* generate_sitemap is not called.
C7_AugmentMerges ==
  (augment_kw /\ net_find # NONE /\ net_doc.kind = "xml"
   /\ parse_sitemap(net_doc).urls # <<>> /\ ProcEnded) =>
    /\ ppc = "returned"
    /\ cpc = "returned"
    /\ gen_urls = NONE
    /\ \E limit \in Limits :
         extracted = LimitUrls(limit, Merge(parse_sitemap(net_doc).urls, crawl_result))
    /\ saved_sitemap.kind = "xml"
    /\ LocsOfFile(saved_sitemap) = Merge(parse_sitemap(net_doc).urls, crawl_result)

\* C8: a sitemap that is found but yields no URL (empty, malformed, or
\* without url elements) leads to the same prompt as no sitemap at all.
C8_EmptyFoundPrompts ==
  (~augment_kw /\ net_find # NONE /\ net_doc.kind # "http_error"
   /\ parse_sitemap(net_doc).urls = <<>> /\ ProcEnded) =>
    choice # "none"

C10_CrawlOutcome ==
  (choice = "1" /\ ppc # "crawling") =>
    IF crawl_result = <<>>
    THEN /\ ppc = "raised" /\ proc_error.type = "ValueError"
         /\ gen_urls = NONE /\ sm_file = NoFile /\ saved_sitemap = NoFile
         /\ extracted = <<>> /\ proc_result = NONE
    ELSE /\ gen_urls = crawl_result
         /\ sitemap_source = "generated"
         /\ ppc = "have_sitemap" => sm_file = generate_sitemap(crawl_result)
         /\ (ppc = "have_sitemap" /\ sm_file.kind = "xml") =>
               LocsOfFile(sm_file) = crawl_result

C10_Witness ==
  /\ choice = "1" /\ ppc = "have_sitemap" /\ sitemap_source = "generated"
  /\ Len(crawl_result) = 2 /\ gen_urls = crawl_result

C10_WitnessNoPages ==
  /\ choice = "1" /\ ppc = "raised" /\ crawl_result = <<>>
  /\ fetch_log = <<>> /\ cpc = "returned"

\* ------------------------------------------------------------------------
\* Claims about _extract_links and _is_valid_url
\* ------------------------------------------------------------------------

\* the URL up to its query string and fragment
CutQueryFragment(url) ==
  LET idx == {i \in 1..Len(url) : url[i] \in {"?", "#"}}
  IN IF idx = {} THEN url
     ELSE SubSeq(url, 1, (CHOOSE i \in idx : \A k \in idx : i <= k) - 1)

\* the canonical form of the href resolved against the page
CanonicalOfHref(href) == normalize_url(CutQueryFragment(urljoin(page_url, href)))

\* g is f with a trailing slash added, or f and g differ only in query
\* string and fragment
HrefVariant(f, g) ==
  /\ f # <<>> /\ g # <<>> /\ f # g
  /\ \/ (CutQueryFragment(f) = f /\ g = f \o <<"/">>)
     \/ CutQueryFragment(f) = CutQueryFragment(g)

\* C11: _extract_links returns a list without duplicates; every element is
\* the canonical form of an href of the page resolved against the page URL
\* without query and fragment, and passes _is_valid_url; two hrefs that
\* differ only by a trailing slash, by query or by fragment contribute one
\* element at most; no element is on another authority.
C11_LinksCanonicalValid ==
  (link_list # NONE) =>
    /\ \A i, j \in 1..Len(link_list) : link_list[i] = link_list[j] => i = j
    /\ \A i \in 1..Len(link_list) :
         /\ \E href \in page_hrefs \ {<<>>} : link_list[i] = CanonicalOfHref(href)
         /\ is_valid_url(link_domain, link_rules, link_list[i])
         /\ urlparse(link_list[i]).netloc = link_domain
    /\ \A f, g \in page_hrefs :
         HrefVariant(f, g) =>
           \A i, j \in 1..Len(link_list) :
             (link_list[i] \in {CanonicalOfHref(f), CanonicalOfHref(g)}
              /\ link_list[j] \in {CanonicalOfHref(f), CanonicalOfHref(g)}) => i = j

\* _is_valid_url was called on an http/https URL of the crawler's domain, with
\* no robots rule
ValidCallSameSite ==
  /\ valid_result # "none"
  /\ link_rules = <<>>
  /\ urlparse(valid_url).netloc = link_domain
  /\ urlparse(valid_url).scheme \in HttpSchemes

\* C12: with no robots rule, _is_valid_url returns False for a same-domain
\* http/https URL whose path is exactly /api or exactly /api/.
C12_RejectsBareApi ==
  (ValidCallSameSite
   /\ urlparse(valid_url).path \in {<<"/", "api">>, <<"/", "api", "/">>}) =>
    valid_result = "False"

\* the path holds /api/ below a first segment and before a last one, ends
\* in no denylisted extension and holds no other denylisted substring
NestedApiPath(path) ==
  /\ \E i \in 3..(Len(path) - 3) : SubSeq(path, i, i + 2) = <<"/", "api", "/">>
  /\ \A ext \in skip_extensions : ~EndsWith(LowerStr(path), ext)
  /\ \A skip \in skip_paths \ {<<"/", "api", "/">>} : ~Contains(LowerStr(path), skip)

\* C13: with no robots rule, _is_valid_url returns True for a same-domain
\* http/https URL whose path has /api/ below another segment, such as
\* /docs/api/admin-graphql, and no denylisted extension.
C13_AcceptsNestedApi ==
  (ValidCallSameSite /\ NestedApiPath(urlparse(valid_url).path)) =>
    valid_result = "True"

\* ------------------------------------------------------------------------
\* Claims about SitemapFinder
\* ------------------------------------------------------------------------

\* download_sitemap has ended
Downloaded == fpc = "done" /\ dl_top # NoResponse

\* the request for the top-level document raised or was answered with a
\* status of 400 or more
TopFetchFailed == dl_top.kind = "error" \/ dl_top.status >= 400

\* C14: download_sitemap raises only when the fetch of the top-level
\* document fails (status >= 400); for every top-level response with a status
\* below 400, whatever its body, it returns a local document and does not
\* raise.
C14_RaisesOnlyOnTopFetch ==
  Downloaded =>
    IF TopFetchFailed THEN dl_error # "none" /\ dl_file = NoFile
    ELSE dl_error = "none" /\ dl_file # NoFile

\* find_sitemap_url has ended
FindEnded == fpc = "done" /\ dl_top = NoResponse

\* the requests of the three steps when none succeeds: robots.txt, the
\* common paths, the homepage
NumSteps == Len(common_paths) + 2

\* C15: no network error of a probe leaves find_sitemap_url: a failing probe
\* is followed by the next one, and when the robots.txt step, every common
\* path and the homepage step fail, all of them were tried and the result is
\* None.
C15_NetworkErrorsContained ==
  /\ find_error \notin {"Timeout", "ConnectionError"}
  /\ (FindEnded /\ find_error = "none" /\ \A i \in 1..Len(probe_log) : ~probe_log[i].ok) =>
       /\ find_result = NONE
       /\ Len(probe_log) >= NumSteps
       /\ probe_log[1].step = "robots"
       /\ \A i \in 2..(NumSteps - 1) : probe_log[i].step = "common"
       /\ probe_log[NumSteps].step = "html"

\* every request of the three steps raised a network error and the call
\* returned None
C15_Witness ==
  /\ FindEnded
  /\ net_errors = NumSteps
  /\ Len(probe_log) = NumSteps
  /\ find_result = NONE
  /\ find_error = "none"

\* scheme and authority of the base URL
SiteRoot == SubSeq(finder_base, 1, Len(BaseH))

\* the URL of the ith request when no step before it succeeded
ExpectedUrl(i) ==
  IF i = 1 THEN SiteRoot \o <<"/", "robots", ".", "txt">>
  ELSE IF i < NumSteps THEN SiteRoot \o common_paths[i - 1]
  ELSE finder_base

ExpectedStep(i) ==
  IF i = 1 THEN "robots" ELSE IF i < NumSteps THEN "common" ELSE "html"

\* C16: find_sitemap_url asks robots.txt first, then the common paths in
\* their listed order, then the homepage and its anchors; it returns at the
\* first success, so that no request follows a successful one and the result
\* is the URL of the successful request (the directive's value for
\* robots.txt).
C16_FixedOrderFirstWins ==
  (dl_top = NoResponse) =>
    /\ \A i \in 1..Len(probe_log) :
         /\ i <= NumSteps =>
              /\ probe_log[i].step = ExpectedStep(i)
              /\ probe_log[i].url = ExpectedUrl(i)
         /\ i > NumSteps => probe_log[i].step = "html"
         /\ probe_log[i].ok =>
              /\ i = Len(probe_log)
              /\ fpc = "done"
              /\ find_result # NONE
              /\ probe_log[i].step # "robots" => find_result = probe_log[i].url
    /\ (FindEnded /\ find_result # NONE) => probe_log[Len(probe_log)].ok

\* robots.txt and two common paths failed, the third common path was
\* accepted and returned
C16_Witness ==
  /\ FindEnded
  /\ Len(probe_log) = 4
  /\ probe_log[4].ok
  /\ find_result = SiteRoot \o common_paths[3]

\* download_sitemap has flattened a sitemap index
FlattenedIndex ==
  /\ Downloaded
  /\ ~TopFetchFailed
  /\ dl_top.body.kind = "xml"
  /\ LocalName(dl_top.body.root.tag) = <<"sitemapindex">>

\* the request for the child was answered with status 200 and a body that
\* is well-formed XML
ChildSucceeded(child) ==
  child.kind = "resp" /\ child.status = 200 /\ child.body.kind = "xml"

\* the loc texts of the url elements of the first n children, those of a
\* child that did not succeed left out
RECURSIVE LocsOfChildren(_)
LocsOfChildren(n) ==
  IF n = 0 THEN <<>>
  ELSE LocsOfChildren(n - 1)
       \o (IF ChildSucceeded(dl_children[n]) THEN LocsOfFile(dl_children[n].body)
           ELSE <<>>)

\* C17: when a sitemap index is flattened, a child whose fetch fails, whose
\* status is not 200 or whose body cannot be parsed is skipped, and the
\* combined document holds exactly the url entries (compared by their loc)
\* of the children that succeeded, in index order and, within a child, in
\* document order.
C17_CombinedIsSucceededChildren ==
  FlattenedIndex =>
    /\ dl_error = "none"
    /\ dl_file.kind = "xml"
    /\ LocsOfFile(dl_file) = LocsOfChildren(Len(dl_children))

\* every child of the index is served with status 200 as the gzip-compressed
\* bytes of a urlset
AllChildrenGzip ==
  /\ dl_children # <<>>
  /\ \A i \in 1..Len(dl_children) :
       /\ dl_children[i].kind = "resp" /\ dl_children[i].status = 200
       /\ dl_children[i].body = Gzip(UrlsetA)

\* C18: download_sitemap on an index whose child is gzip-compressed
\* decompresses the child: parse_sitemap on the combined document returns the
\* loc entries of the child, in order.
C18_GzipChildDecompressed ==
  (FlattenedIndex /\ AllChildrenGzip) =>
    /\ dl_error = "none"
    /\ ~parse_sitemap(dl_file).raised
    /\ parse_sitemap(dl_file).urls = parse_sitemap(UrlsetA).urls

\* ------------------------------------------------------------------------
\* Claims about the robots rules and the visited set of WebCrawler
\* ------------------------------------------------------------------------

\* the value of a robots.txt line that starts with Disallow: in any case,
\* trimmed; <<>> for any other line
DisallowValue(line) ==
  IF StartsWith(LowerLine(Strip(line)), <<"disallow", ":">>)
  THEN Strip(From(line, Find(line, ":", 1) + 1))
  ELSE <<>>

\* the rule list the response to the robots.txt request stands for
RulesOf(response) ==
  IF response.kind = "error" THEN <<>>
  ELSE IF response.status # 200 THEN <<>>
  ELSE LET lines == SplitSeq(response.text, "\n")
           values == [i \in 1..Len(lines) |-> DisallowValue(lines[i])]
       IN SelectSeq(values, LAMBDA v : v # <<>>)

\* C19: construction of the crawler always completes; after it the list of
\* disallowed paths is empty when the robots.txt request raised or was
\* answered with a status other than 200, and otherwise the non-empty
\* trimmed values of the Disallow: lines in file order; crawl never changes
\* the list.
C19_RobotsRules ==
  /\ [](cpc \notin {"idle", "new"} =>
         /\ robots_response \in RobotsResponses
         /\ disallowed_paths = RulesOf(robots_response))
  /\ [][cpc \notin {"idle", "new"} => disallowed_paths' = disallowed_paths]_vars

\* a crawl that fetched a page has returned on a crawler built from a
\* robots.txt with two rules
C19_Witness ==
  /\ cpc = "returned"
  /\ fetch_log # <<>>
  /\ robots_response.kind = "resp" /\ robots_response.status = 200
  /\ Len(disallowed_paths) = 2

\* the URLs appended to the frontier queue by the step
EnqueuedByStep == {enq_log'[i] : i \in (Len(enq_log) + 1)..Len(enq_log')}

\* C20: every URL in the frontier queue or in discovered_urls is in
\* visited_urls; the URLs a step adds to visited_urls are the URLs it
\* enqueues, so a URL is marked when it is enqueued and not when it is
\* dequeued; visited_urls never shrinks.
C20_VisitedCoversFrontier ==
  /\ [](/\ \A i \in 1..Len(queue) : queue[i].url \in visited_urls
        /\ \A i \in 1..Len(discovered_urls) : discovered_urls[i] \in visited_urls)
  /\ [][/\ visited_urls \subseteq visited_urls'
        /\ visited_urls' \ visited_urls = EnqueuedByStep]_vars

\* the loop is running with a page discovered, links of it waiting in the
\* queue and three URLs visited
C20_Witness ==
  /\ cpc = "loop"
  /\ discovered_urls # <<>>
  /\ Len(queue) >= 2
  /\ Cardinality(visited_urls) >= 3

\* ------------------------------------------------------------------------
\* Claims about the depth, the order and the URLs of a crawl
\* ------------------------------------------------------------------------

\* the step fetched the head of the queue and recorded it
RecordedByStep == Len(discovered_urls') = Len(discovered_urls) + 1

\* the entries the step appended to the queue
AppendedByStep == SubSeq(queue', Len(queue), Len(queue'))

FetchedByStep == Len(fetch_log') = Len(fetch_log) + 1

\* the response of the step has status 200 and a content type that contains
\* text/html
GoodResponse ==
  /\ last_response'.kind = "resp"
  /\ last_response'.status = 200
  /\ last_response'.html

\* C22: a step of the crawl appends a page to discovered_urls only if its
\* request was answered with status 200 and a content type that contains
\* text/html; when the request raises or the response is rejected,
\* discovered_urls is unchanged, nothing is enqueued, nothing is added to
\* visited_urls, and the loop goes on with the rest of the queue.
C22_RecordsOnlyHtml200 ==
  [][(cpc = "loop" /\ FetchedByStep) =>
       /\ RecordedByStep =>
            /\ GoodResponse
            /\ discovered_urls' = Append(discovered_urls, Head(queue).url)
       /\ ~GoodResponse =>
            /\ discovered_urls' = discovered_urls
            /\ queue' = Tail(queue)
            /\ visited_urls' = visited_urls
            /\ enq_log' = enq_log
            /\ cpc' = "loop"]_vars

\* a request has raised after a page was recorded, and the loop is running
\* with an entry waiting in the queue
C22_Witness ==
  /\ cpc = "loop"
  /\ last_response.kind = "error"
  /\ discovered_urls # <<>>
  /\ queue # <<>>

\* ------------------------------------------------------------------------
\* Claims about the canonical form in the sitemap reader
\* ------------------------------------------------------------------------

\* C23: the string parse_sitemap stores for a loc is _normalize_url of that
\* loc, whatever its scheme and form: the stored strings are the
\* _normalize_url images of the locs of the file.
C23_ReaderUsesCanonicalForm ==
  (parse_result # NONE) =>
    {parse_result[i] : i \in 1..Len(parse_result)}
      = {normalize_url(LocsOfFile(sm_file)[i]) : i \in 1..Len(LocsOfFile(sm_file))}

\* ------------------------------------------------------------------------
\* Claims about a second call of crawl
\* ------------------------------------------------------------------------

\* C24: visited set and discovered list belong to one run: a second call of
\* crawl() on the same crawler returns the list the first call returned, and
\* no URL is in it twice.
C24_SecondCrawlSameList ==
  (first_result # NoList /\ cpc = "returned") =>
    /\ crawl_result = first_result
    /\ \A i, j \in 1..Len(crawl_result) : crawl_result[i] = crawl_result[j] => i = j

\* ------------------------------------------------------------------------
\* Claims about the end of a crawl
\* ------------------------------------------------------------------------

\* C25: for every max_depth and max_pages and every pattern of failing
\* requests, crawl() on a finite site leaves its loop and returns a list.
C25_CrawlTerminates == <>(cpc = "returned" /\ crawl_result = discovered_urls)

\* the crawl has returned after a request that failed and one that was
\* recorded
C25_Witness ==
  /\ cpc = "returned"
  /\ crawl_result # <<>>
  /\ \E i \in 1..Len(fetch_log) : ~fetch_log[i].accepted

\* ------------------------------------------------------------------------
\* Claims about the order of a crawl
\* ------------------------------------------------------------------------

UrlsOf(entries) == [i \in 1..Len(entries) |-> entries[i].url]

DepthsAscend(entries) ==
  \A i, j \in 1..Len(entries) : i < j => entries[i].depth <= entries[j].depth

\* C26: the crawl is breadth-first. Entries leave the frontier in the order
\* they entered it, so the depths of the fetched (hence of the recorded) pages
\* never decrease along the run. The depth of an entry is the length of the
\* shortest link path from the start URL through recorded pages: an entry is
\* enqueued at one more than the depth of the recorded page whose link it is
\* (a path of that length exists), and a recorded page above the depth limit
\* leaves none of its links off the frontier (no shorter path is passed over).
C26_BreadthFirst ==
  /\ []((max_depth >= 0 /\ cpc \in {"loop", "returned"}) =>
          /\ UrlsOf(fetch_log) \o UrlsOf(queue) = enq_log
          /\ DepthsAscend(fetch_log \o queue)
          /\ missed_links = {})
  /\ [][(max_depth >= 0 /\ cpc = "loop" /\ cpc' = "loop" /\ Len(queue') >= Len(queue)) =>
          /\ RecordedByStep
          /\ queue' = Tail(queue) \o AppendedByStep
          /\ \A i \in 1..Len(AppendedByStep) :
               AppendedByStep[i].depth = Head(queue).depth + 1]_vars

\* ------------------------------------------------------------------------
\* Claims about the URLs a crawl touches
\* ------------------------------------------------------------------------

\* C27: every URL crawl() fetches or records, the start URL included, passes
\* _is_valid_url: base domain, no denylisted path or extension, no robots.txt
\* Disallow prefix.
C27_FetchedAreValid ==
  /\ \A i \in 1..Len(fetch_log) :
       is_valid_url(domain, disallowed_paths, fetch_log[i].url)
  /\ \A i \in 1..Len(discovered_urls) :
       is_valid_url(domain, disallowed_paths, discovered_urls[i])

\* C28: every URL of the list crawl() returned is a fixed point of
\* _normalize_url, and no two entries have the same canonical form.
C28_ReturnedAreCanonical ==
  cpc = "returned" =>
    /\ \A i \in 1..Len(crawl_result) : normalize_url(crawl_result[i]) = crawl_result[i]
    /\ \A i, j \in 1..Len(crawl_result) :
         normalize_url(crawl_result[i]) = normalize_url(crawl_result[j]) => i = j

\* ------------------------------------------------------------------------
\* Claims about the sitemap generated from a crawl
\* ------------------------------------------------------------------------

\* C29: in the crawl branch of process_website, reading the generated
\* sitemap back loses nothing: parse_sitemap(generate_sitemap(urls)) is the
\* list crawl() returned, same elements in the same order, so the list handed
\* to extraction before any limit is the crawler's output.
C29_GeneratedRoundTrip ==
  (sitemap_source = "generated" /\ ProcEnded) =>
    /\ ppc = "returned"
    /\ parse_result = crawl_result
    /\ parse_sitemap(generate_sitemap(crawl_result)).urls = crawl_result

====
